---- MODULE Spec2Model ----
(***************************************************************************)
(* A model of the compliance-gated swap settlement engine of rwa_amm:      *)
(* the hook registry (cp-amm/src/state/hook_registry.rs), the swap         *)
(* handler (cp-amm/src/instructions/ix_swap.rs), the hook-aware transfer   *)
(* helpers (cp-amm/src/utils/token.rs) and the transfer-hook program       *)
(* (transfer-hook/src).                                                    *)
(*                                                                         *)
(* Public keys are natural numbers; Pubkey::default() is 0.                *)
(***************************************************************************)
EXTENDS Integers, Sequences, FiniteSets, TLC

VARIABLES
    hook_registry,  \* the HookRegistry account (PDA "hook-registry")
    mints,          \* the two mints of the pool: gate program and transfer fee
    pool,           \* the Pool account
    balances,       \* token balances of the payer, the vaults and the referrer
    user_kyc,       \* the UserKYC accounts of the transfer-hook program, by owner
    last            \* outcome of the latest instruction

vars == <<hook_registry, mints, pool, balances, user_kyc, last>>
\* what the registry instructions leave alone
others == <<mints, pool, balances, user_kyc>>

(***************************************************************************)
(* Bounds of the model                                                     *)
(***************************************************************************)
\* program identifiers handed to the registry instructions: 0..MaxProgramId
MaxProgramId == 2
\* number of programs a large registry already holds when checking starts
Prefilled == 30
\* signers are the keys 1..MaxSigner
MaxSigner == 2
\* a gate program that is not the transfer-hook program of this repository
OtherHookId == 2
\* the largest amount an unsigned amount field holds in the model
U64_MAX == 200000
\* the amounts of the swaps: what the payer offers, the minimum it asks for
AmountIn == 400
MinOut == 200
\* a minimum so large that one and a half times it is beyond U64_MAX
LargeMinOut == 150000
\* the referral fee and the protocol fee pricing charges
ReferralFee == 5
ProtocolFee == 2
\* what each vault and reserve holds at first
VaultStart == 1000
\* the transfer fee of mint B: rate in basis points and maximum fee
FeeBasisPoints == 100
MaximumFee == 5
\* successful swaps happen at times 1..MaxTime
MaxTime == 1
\* the fee conversions are applied to the amounts 0..FeeMaxAmount and to
\* the FeeMargin largest amounts
FeeMaxAmount == 40
FeeMargin == 8
\* volume counters are advanced on the days and months 0..MaxDay, by
\* nothing, by VolumeUnit or by a very large amount
MaxDay == 1
VolumeUnit == 7

(***************************************************************************)
(* Program constants                                                       *)
(***************************************************************************)
\* Pubkey::default(), the all-zero key
DefaultPubkey == 0
\* whitelisted_programs: [Pubkey; 32]
MAX_PROGRAMS == 32

\* declare_id! of the transfer-hook program
TRANSFER_HOOK_ID == 1
\* the payer of the swaps, and the pool authority PDA
PAYER == 1
POOL_AUTHORITY == 9
\* UserKYC levels and flags
BASIC == 1
INSTITUTIONAL == 3
FLAG_SANCTIONS == 1
FLAG_PEP == 2
FLAG_FROZEN == 4
FLAG_EXPIRED == 8
\* user_kyc.risk_score = 50
INITIAL_RISK_SCORE == 50
\* MAX_FEE_BASIS_POINTS of spl-token-2022
MAX_FEE_BASIS_POINTS == 10000
\* let hook_slippage_tolerance = 50
HOOK_SLIPPAGE_TOLERANCE == 50

\* the transfer fee configuration of a mint, and of a mint without one
MintFee == [present |-> TRUE, transfer_fee_basis_points |-> FeeBasisPoints,
            maximum_fee |-> MaximumFee]
NoMintFee == [present |-> FALSE, transfer_fee_basis_points |-> 0, maximum_fee |-> 0]
\* an optional list: None
None == [some |-> FALSE, list |-> {}]
Some(list) == [some |-> TRUE, list |-> list]
\* the message of the error the runtime ends an invocation of the token
\* program for a mint with (compute budget, account resolution), as the set
\* of phrases it contains: none
NoFault == {}
\* what a mint's metadata declares about geography: nothing
NoRwaMetadata == [allowed_countries |-> None, restricted_states |-> None]

\* the UserKYC account handle_initialize_user_kyc writes at time 0 (the city
\* and the last_updated stamp are left out: nothing reads them)
NewUserKyc(kyc_level, country, state) ==
    [initialized |-> TRUE, kyc_level |-> kyc_level, risk_score |-> INITIAL_RISK_SCORE,
     flags |-> 0, daily_volume |-> 0, monthly_volume |-> 0,
     last_reset_day |-> 0, last_reset_month |-> 0,
     country |-> country, state |-> state]
\* an account that was never initialized
NoUserKyc ==
    [initialized |-> FALSE, kyc_level |-> 0, risk_score |-> 0,
     flags |-> 0, daily_volume |-> 0, monthly_volume |-> 0,
     last_reset_day |-> 0, last_reset_month |-> 0,
     country |-> "", state |-> ""]
\* a compliance record that passes the hook
EligibleKyc == NewUserKyc(BASIC, "US", "")

ProgramIds == 0..MaxProgramId
Signers == 1..MaxSigner
\* the k-th program of a registry filled by earlier add instructions
FillerId(k) == MaxProgramId + k
Slots == 0..(MAX_PROGRAMS - 1)

(***************************************************************************)
(* HookRegistry                                                            *)
(***************************************************************************)
\* a mutation of is_program_whitelisted: the scan ignores program_count
is_program_whitelisted_allslots(reg, program_id) ==
    \E i \in Slots : reg.whitelisted_programs[i] = program_id

is_program_whitelisted(reg, program_id) ==
    IF reg.program_count = 0
    THEN FALSE
    ELSE \E i \in 0..(reg.program_count - 1) : reg.whitelisted_programs[i] = program_id

\* a mutation of add_program: the duplicate check is missing
add_program_nodup(reg, program_id) ==
    IF ~(reg.program_count < MAX_PROGRAMS)
    THEN [err |-> "HookRegistryFull", reg |-> reg]
    ELSE [err |-> "Ok",
          reg |-> [reg EXCEPT !.whitelisted_programs[reg.program_count] = program_id,
                              !.program_count = reg.program_count + 1]]

\* a mutation of add_program: the duplicate check runs before the capacity check
add_program_dupfirst(reg, program_id) ==
    IF is_program_whitelisted(reg, program_id)
    THEN [err |-> "HookProgramAlreadyWhitelisted", reg |-> reg]
    ELSE IF ~(reg.program_count < MAX_PROGRAMS)
    THEN [err |-> "HookRegistryFull", reg |-> reg]
    ELSE [err |-> "Ok",
          reg |-> [reg EXCEPT !.whitelisted_programs[reg.program_count] = program_id,
                              !.program_count = reg.program_count + 1]]

\* a mutation of add_program: the slot is written before the duplicate check
add_program_writefirst(reg, program_id) ==
    IF ~(reg.program_count < MAX_PROGRAMS)
    THEN [err |-> "HookRegistryFull", reg |-> reg]
    ELSE LET written == [reg EXCEPT !.whitelisted_programs[reg.program_count] = program_id,
                                    !.program_count = reg.program_count + 1]
         IN IF is_program_whitelisted(reg, program_id)
            THEN [err |-> "HookProgramAlreadyWhitelisted", reg |-> written]
            ELSE [err |-> "Ok", reg |-> written]

add_program(reg, program_id) ==
    IF ~(reg.program_count < MAX_PROGRAMS)
    THEN [err |-> "HookRegistryFull", reg |-> reg]
    ELSE IF is_program_whitelisted(reg, program_id)
    THEN [err |-> "HookProgramAlreadyWhitelisted", reg |-> reg]
    ELSE [err |-> "Ok",
          reg |-> [reg EXCEPT !.whitelisted_programs[reg.program_count] = program_id,
                              !.program_count = reg.program_count + 1]]

\* the search loop of remove_program: the first index i..count-1 holding
\* program_id, or -1 (None)
RECURSIVE find_index(_, _, _)
find_index(reg, program_id, i) ==
    IF i >= reg.program_count THEN -1
    ELSE IF reg.whitelisted_programs[i] = program_id THEN i
    ELSE find_index(reg, program_id, i + 1)

\* the shift loop of remove_program: for i in index..(count - 1)
RECURSIVE shift_left(_, _, _)
shift_left(programs, i, end) ==
    IF i >= end THEN programs
    ELSE shift_left([programs EXCEPT ![i] = programs[i + 1]], i + 1, end)

\* a mutation of remove_program: the hole is filled by the last entry
\* (swap-remove) instead of shifting
remove_program_swap(reg, program_id) ==
    LET index == find_index(reg, program_id, 0) IN
    IF index = -1
    THEN [err |-> "HookProgramNotFound", reg |-> reg, index |-> index]
    ELSE LET lastIdx == reg.program_count - 1
             moved == [reg.whitelisted_programs EXCEPT ![index] = reg.whitelisted_programs[lastIdx]]
         IN [err |-> "Ok", index |-> index,
             reg |-> [reg EXCEPT !.whitelisted_programs = [moved EXCEPT ![lastIdx] = DefaultPubkey],
                                 !.program_count = reg.program_count - 1]]

\* a mutation of remove_program: the vacated last slot is not cleared
remove_program_noclear(reg, program_id) ==
    LET index == find_index(reg, program_id, 0) IN
    IF index = -1
    THEN [err |-> "HookProgramNotFound", reg |-> reg, index |-> index]
    ELSE LET shifted == shift_left(reg.whitelisted_programs, index, reg.program_count - 1)
         IN [err |-> "Ok", index |-> index,
             reg |-> [reg EXCEPT !.whitelisted_programs = shifted,
                                 !.program_count = reg.program_count - 1]]

remove_program(reg, program_id) ==
    LET index == find_index(reg, program_id, 0) IN
    IF index = -1
    THEN [err |-> "HookProgramNotFound", reg |-> reg, index |-> index]
    ELSE LET shifted == shift_left(reg.whitelisted_programs, index, reg.program_count - 1)
         IN [err |-> "Ok", index |-> index,
             reg |-> [reg EXCEPT !.whitelisted_programs =
                                      [shifted EXCEPT ![reg.program_count - 1] = DefaultPubkey],
                                 !.program_count = reg.program_count - 1]]

get_whitelisted_programs(reg) ==
    [k \in 1..reg.program_count |-> reg.whitelisted_programs[k - 1]]

\* the account as handle_create_hook_registry leaves it (bump and padding,
\* which no instruction reads back, are left out)
handle_create_hook_registry(authority) ==
    [authority |-> authority,
     program_count |-> 0,
     whitelisted_programs |-> [i \in Slots |-> DefaultPubkey]]

\* the registry after n further successful add instructions of the
\* programs FillerId(1) .. FillerId(n)
RECURSIVE AfterAdds(_, _)
AfterAdds(reg, n) ==
    IF n = 0 THEN reg ELSE add_program(AfterAdds(reg, n - 1), FillerId(n)).reg

\* last: the instruction, its outcome, its signer and argument, and for a
\* remove the index its search loop found (-1: none)
RegOutcome(op, err, signer, program_id, index) ==
    [op |-> op, err |-> err, signer |-> signer, program_id |-> program_id, index |-> index]

NoRegOp == RegOutcome("none", "Ok", 0, 0, -1)

(***************************************************************************)
(* Registry instructions. ManageHookProgram carries has_one = authority:   *)
(* with another signer the instruction fails before its handler runs.      *)
(* A failed instruction leaves the account as it was.                      *)
(***************************************************************************)
handle_add_hook_program(signer, program_id) ==
    IF signer # hook_registry.authority
    THEN /\ last' = RegOutcome("add", "ConstraintHasOne", signer, program_id, -1)
         /\ UNCHANGED <<hook_registry, others>>
    ELSE LET r == add_program(hook_registry, program_id) IN
         /\ hook_registry' = IF r.err = "Ok" THEN r.reg ELSE hook_registry
         /\ UNCHANGED others
         /\ last' = RegOutcome("add", r.err, signer, program_id, -1)

handle_remove_hook_program(signer, program_id) ==
    IF signer # hook_registry.authority
    THEN /\ last' = RegOutcome("remove", "ConstraintHasOne", signer, program_id, -1)
         /\ UNCHANGED <<hook_registry, others>>
    ELSE LET r == remove_program(hook_registry, program_id) IN
         /\ hook_registry' = IF r.err = "Ok" THEN r.reg ELSE hook_registry
         /\ UNCHANGED others
         /\ last' = RegOutcome("remove", r.err, signer, program_id, r.index)

\* a mutation of handle_update_hook_registry_authority: the has_one
\* constraint is absent
handle_update_hook_registry_authority_anysigner(signer, new_authority) ==
    /\ hook_registry' = [hook_registry EXCEPT !.authority = new_authority]
    /\ UNCHANGED others
    /\ last' = RegOutcome("update_authority", "Ok", signer, new_authority, -1)

handle_update_hook_registry_authority(signer, new_authority) ==
    IF signer # hook_registry.authority
    THEN /\ last' = RegOutcome("update_authority", "ConstraintHasOne", signer, new_authority, -1)
         /\ UNCHANGED <<hook_registry, others>>
    ELSE /\ hook_registry' = [hook_registry EXCEPT !.authority = new_authority]
         /\ UNCHANGED others
         /\ last' = RegOutcome("update_authority", "Ok", signer, new_authority, -1)

\* validate_hook_program (utils/token.rs): a lookup of one program in the
\* registry account, which changes nothing
validate_hook_program(hook_program_id) ==
    /\ last' = RegOutcome("validate",
                              IF is_program_whitelisted(hook_registry, hook_program_id)
                              THEN "Ok" ELSE "UnauthorizedHookProgram",
                              0, hook_program_id, -1)
    /\ UNCHANGED <<hook_registry, others>>


(***************************************************************************)
(* Token-2022 mints: transfer fee and transfer hook extensions             *)
(***************************************************************************)
Min(a, b) == IF a < b THEN a ELSE b
CeilDiv(a, b) == (a + b - 1) \div b

saturating_mul(a, b) == IF a * b > U64_MAX THEN U64_MAX ELSE a * b

\* a mutation of calculate_fee: the fee is rounded down
calculate_fee_floor(fee, pre_fee_amount) ==
    IF fee.transfer_fee_basis_points = 0 \/ pre_fee_amount = 0
    THEN 0
    ELSE Min((pre_fee_amount * fee.transfer_fee_basis_points) \div MAX_FEE_BASIS_POINTS,
             fee.maximum_fee)

\* TransferFee::calculate_fee of spl-token-2022: the rate applied to the
\* amount, rounded up, capped by maximum_fee
calculate_fee(fee, pre_fee_amount) ==
    IF fee.transfer_fee_basis_points = 0 \/ pre_fee_amount = 0
    THEN 0
    ELSE Min(CeilDiv(pre_fee_amount * fee.transfer_fee_basis_points, MAX_FEE_BASIS_POINTS),
             fee.maximum_fee)

\* None is a fee record with present = FALSE
get_epoch_transfer_fee(token_mint) == mints[token_mint].fee

\* a mutation of calculate_transfer_fee_excluded_amount: the fee is not
\* taken off
calculate_transfer_fee_excluded_amount_nofee(token_mint, transfer_fee_included_amount) ==
    [err |-> "Ok", amount |-> transfer_fee_included_amount, transfer_fee |-> 0]

\* a mutation of calculate_transfer_fee_excluded_amount: the fee is reported
\* but the amount is returned whole
calculate_transfer_fee_excluded_amount_whole(token_mint, transfer_fee_included_amount) ==
    LET epoch_transfer_fee == get_epoch_transfer_fee(token_mint) IN
    [err |-> "Ok", amount |-> transfer_fee_included_amount,
     transfer_fee |-> IF epoch_transfer_fee.present
                      THEN calculate_fee(epoch_transfer_fee, transfer_fee_included_amount)
                      ELSE 0]

calculate_transfer_fee_excluded_amount(token_mint, transfer_fee_included_amount) ==
    LET epoch_transfer_fee == get_epoch_transfer_fee(token_mint) IN
    IF epoch_transfer_fee.present
    THEN LET transfer_fee == calculate_fee(epoch_transfer_fee, transfer_fee_included_amount) IN
         IF transfer_fee > transfer_fee_included_amount
         THEN [err |-> "MathOverflow", amount |-> 0, transfer_fee |-> 0]
         ELSE [err |-> "Ok",
               amount |-> transfer_fee_included_amount - transfer_fee,
               transfer_fee |-> transfer_fee]
    ELSE [err |-> "Ok", amount |-> transfer_fee_included_amount, transfer_fee |-> 0]

\* checked_add of two u64: -1 stands for None
checked_add(a, b) == IF a + b > U64_MAX THEN -1 ELSE a + b

\* TransferFee::calculate_pre_fee_amount of spl-token-2022; -1 stands for None
calculate_pre_fee_amount(fee, post_fee_amount) ==
    IF fee.transfer_fee_basis_points = 0 THEN post_fee_amount
    ELSE IF post_fee_amount = 0 THEN 0
    ELSE IF fee.transfer_fee_basis_points = MAX_FEE_BASIS_POINTS
    THEN checked_add(fee.maximum_fee, post_fee_amount)
    ELSE LET raw_pre_fee_amount ==
                 CeilDiv(post_fee_amount * MAX_FEE_BASIS_POINTS,
                         MAX_FEE_BASIS_POINTS - fee.transfer_fee_basis_points)
         IN IF raw_pre_fee_amount - post_fee_amount >= fee.maximum_fee
            THEN checked_add(post_fee_amount, fee.maximum_fee)
            ELSE IF raw_pre_fee_amount > U64_MAX THEN -1 ELSE raw_pre_fee_amount

\* a mutation of calculate_inverse_fee: the fee is taken on the amount after
\* the fee
calculate_inverse_fee_onpost(fee, post_fee_amount) ==
    calculate_fee(fee, post_fee_amount)

\* TransferFee::calculate_inverse_fee of spl-token-2022; -1 stands for None
calculate_inverse_fee(fee, post_fee_amount) ==
    LET pre_fee_amount == calculate_pre_fee_amount(fee, post_fee_amount) IN
    IF pre_fee_amount = -1 THEN -1 ELSE calculate_fee(fee, pre_fee_amount)

\* a mutation of calculate_transfer_fee_included_amount: the early return
\* for a zero amount is absent
calculate_transfer_fee_included_amount_nozero(token_mint, transfer_fee_excluded_amount) ==
    LET epoch_transfer_fee == get_epoch_transfer_fee(token_mint) IN
    IF ~epoch_transfer_fee.present
    THEN [err |-> "Ok", amount |-> transfer_fee_excluded_amount, transfer_fee |-> 0,
          consulted |-> TRUE]
    ELSE LET transfer_fee ==
                 IF epoch_transfer_fee.transfer_fee_basis_points = MAX_FEE_BASIS_POINTS
                 THEN epoch_transfer_fee.maximum_fee
                 ELSE calculate_inverse_fee(epoch_transfer_fee, transfer_fee_excluded_amount)
             transfer_fee_included_amount ==
                 IF transfer_fee = -1 THEN -1
                 ELSE checked_add(transfer_fee_excluded_amount, transfer_fee)
         IN IF transfer_fee = -1 \/ transfer_fee_included_amount = -1
            THEN [err |-> "MathOverflow", amount |-> 0, transfer_fee |-> 0, consulted |-> TRUE]
            ELSE IF transfer_fee # calculate_fee(epoch_transfer_fee, transfer_fee_included_amount)
            THEN [err |-> "FeeInverseIsIncorrect", amount |-> 0, transfer_fee |-> 0,
                  consulted |-> TRUE]
            ELSE [err |-> "Ok", amount |-> transfer_fee_included_amount,
                  transfer_fee |-> transfer_fee, consulted |-> TRUE]

\* a mutation of calculate_transfer_fee_included_amount: the fee is taken on
\* the amount without the fee and is not verified
calculate_transfer_fee_included_amount_forward(token_mint, transfer_fee_excluded_amount) ==
    IF transfer_fee_excluded_amount = 0
    THEN [err |-> "Ok", amount |-> 0, transfer_fee |-> 0, consulted |-> FALSE]
    ELSE LET epoch_transfer_fee == get_epoch_transfer_fee(token_mint) IN
    IF ~epoch_transfer_fee.present
    THEN [err |-> "Ok", amount |-> transfer_fee_excluded_amount, transfer_fee |-> 0,
          consulted |-> TRUE]
    ELSE LET transfer_fee == calculate_fee(epoch_transfer_fee, transfer_fee_excluded_amount)
             transfer_fee_included_amount ==
                 checked_add(transfer_fee_excluded_amount, transfer_fee)
         IN IF transfer_fee_included_amount = -1
            THEN [err |-> "MathOverflow", amount |-> 0, transfer_fee |-> 0, consulted |-> TRUE]
            ELSE [err |-> "Ok", amount |-> transfer_fee_included_amount,
                  transfer_fee |-> transfer_fee, consulted |-> TRUE]

\* consulted: whether get_epoch_transfer_fee was called
calculate_transfer_fee_included_amount(token_mint, transfer_fee_excluded_amount) ==
    IF transfer_fee_excluded_amount = 0
    THEN [err |-> "Ok", amount |-> 0, transfer_fee |-> 0, consulted |-> FALSE]
    ELSE LET epoch_transfer_fee == get_epoch_transfer_fee(token_mint) IN
    IF ~epoch_transfer_fee.present
    THEN [err |-> "Ok", amount |-> transfer_fee_excluded_amount, transfer_fee |-> 0,
          consulted |-> TRUE]
    ELSE LET transfer_fee ==
                 IF epoch_transfer_fee.transfer_fee_basis_points = MAX_FEE_BASIS_POINTS
                 THEN epoch_transfer_fee.maximum_fee
                 ELSE calculate_inverse_fee(epoch_transfer_fee, transfer_fee_excluded_amount)
             transfer_fee_included_amount ==
                 IF transfer_fee = -1 THEN -1
                 ELSE checked_add(transfer_fee_excluded_amount, transfer_fee)
         IN IF transfer_fee = -1 \/ transfer_fee_included_amount = -1
            THEN [err |-> "MathOverflow", amount |-> 0, transfer_fee |-> 0, consulted |-> TRUE]
            ELSE IF transfer_fee # calculate_fee(epoch_transfer_fee, transfer_fee_included_amount)
            THEN [err |-> "FeeInverseIsIncorrect", amount |-> 0, transfer_fee |-> 0,
                  consulted |-> TRUE]
            ELSE [err |-> "Ok", amount |-> transfer_fee_included_amount,
                  transfer_fee |-> transfer_fee, consulted |-> TRUE]

\* the gate program a mint declares, DefaultPubkey for none
has_transfer_hook(token_mint) == mints[token_mint].hook

(***************************************************************************)
(* The transfer-hook program                                               *)
(***************************************************************************)
TestBit(flags, bit) == (flags \div bit) % 2 = 1

is_sanctioned(kyc) == TestBit(kyc.flags, FLAG_SANCTIONS)
is_frozen(kyc) == TestBit(kyc.flags, FLAG_FROZEN)
is_expired(kyc) == TestBit(kyc.flags, FLAG_EXPIRED)
is_eligible_for_trading(kyc) ==
    kyc.kyc_level >= BASIC /\ ~is_sanctioned(kyc) /\ ~is_frozen(kyc) /\ ~is_expired(kyc)

saturating_add(a, b) == IF a + b > U64_MAX THEN U64_MAX ELSE a + b

\* a mutation of update_daily_volume: the counter is not reset on a new day
update_daily_volume_noreset(kyc, current_day, amount) ==
    [kyc EXCEPT !.last_reset_day = current_day,
                !.daily_volume = saturating_add(kyc.daily_volume, amount)]

update_daily_volume(kyc, current_day, amount) ==
    LET k == IF kyc.last_reset_day # current_day
             THEN [kyc EXCEPT !.daily_volume = 0, !.last_reset_day = current_day]
             ELSE kyc
    IN [k EXCEPT !.daily_volume = saturating_add(k.daily_volume, amount)]

update_monthly_volume(kyc, current_month, amount) ==
    LET k == IF kyc.last_reset_month # current_month
             THEN [kyc EXCEPT !.monthly_volume = 0, !.last_reset_month = current_month]
             ELSE kyc
    IN [k EXCEPT !.monthly_volume = saturating_add(k.monthly_volume, amount)]

\* Token2022MetadataParser::parse_metadata_from_mint of the transfer-hook
\* program: the printable strings of the account data become a name, a
\* symbol and a uri, and additional_metadata holds the one key
\* "strings_found"; what the mint declares under other keys is not kept
parse_metadata_from_mint(token_mint) ==
    [ok |-> TRUE, additional_metadata |-> {"strings_found"}]

\* Token2022MetadataParser::extract_rwa_metadata of the transfer-hook program
extract_rwa_metadata(metadata) ==
    [allowed_countries |-> None, restricted_states |-> None]

\* the code "{country}_{state}" of a record
StateCode(kyc) == <<kyc.country, kyc.state>>

\* a mutation of handle_transfer_hook: the expired flag is not looked at
handle_transfer_hook_noexpiry(token_mint, owner) ==
    LET kyc == user_kyc[owner] IN
    IF ~kyc.initialized THEN "AccountNotInitialized"
    ELSE IF is_sanctioned(kyc) THEN "UserSanctioned"
    ELSE IF is_frozen(kyc) THEN "UserAccountFrozen"
    ELSE IF kyc.kyc_level < BASIC THEN "UserNotKycVerified"
    ELSE "Ok"

\* the Execute instruction for a transfer of token_mint whose source is
\* owned by `owner`: user_kyc is the PDA ["user-kyc", owner]
handle_transfer_hook(token_mint, owner) ==
    LET kyc == user_kyc[owner] IN
    IF ~kyc.initialized THEN "AccountNotInitialized"
    ELSE IF is_sanctioned(kyc) THEN "UserSanctioned"
    ELSE IF is_frozen(kyc) THEN "UserAccountFrozen"
    ELSE IF kyc.kyc_level < BASIC THEN "UserNotKycVerified"
    ELSE IF is_expired(kyc) THEN "UserNotEligible"
    ELSE LET parsed == parse_metadata_from_mint(token_mint) IN
         IF ~parsed.ok THEN "Ok"
         ELSE LET rwa == extract_rwa_metadata(parsed) IN
              IF rwa.allowed_countries.some /\ kyc.country \notin rwa.allowed_countries.list
              THEN "InvalidCountryCode"
              ELSE IF rwa.restricted_states.some
                      /\ StateCode(kyc) \in rwa.restricted_states.list
              THEN "InvalidStateCode"
              ELSE "Ok"

\* what a gate program answers; a gate program other than the transfer-hook
\* program of this repository accepts every transfer
execute_hook(hook_program_id, token_mint, owner) ==
    IF hook_program_id = TRANSFER_HOOK_ID THEN handle_transfer_hook(token_mint, owner) ELSE "Ok"

(***************************************************************************)
(* Movements: transfer_checked of the token program, and the helpers of    *)
(* utils/token.rs around it. An error is the set of phrases its message    *)
(* contains.                                                               *)
(***************************************************************************)
Contains(e, phrase) == phrase \in e

\* account keys: a kind, a name and a number
TokenKey(account) == <<"token", account, 0>>
MintKey(token_mint) == <<"mint", token_mint, 0>>
WalletKey(key) == <<"wallet", "", key>>
ProgramKey(program_id) == <<"program", "", program_id>>
\* find_program_address(["extra-account-metas", mint], hook_program_id)
MetaKey(token_mint, hook_program_id) == <<"extra-account-metas", token_mint, hook_program_id>>
\* find_program_address(["user-kyc", owner], TRANSFER_HOOK_ID)
KycKey(owner) == <<"user-kyc", "", owner>>

AccountMeta(key, is_signer, is_writable) ==
    [key |-> key, is_signer |-> is_signer, is_writable |-> is_writable]
new_readonly(key, is_signer) == AccountMeta(key, is_signer, FALSE)
Keys(account_infos) == {account_infos[i].key : i \in DOMAIN account_infos}

\* the mint a token account belongs to
AccountMint(account) ==
    IF account \in {"user_a", "vault_a", "referral_a"} THEN "A"
    ELSE IF account \in {"user_b", "vault_b", "referral_b"} THEN "B"
    ELSE "C"

\* the accounts of spl_token_2022::instruction::transfer_checked with no
\* multisig signers: source, mint, destination, authority
base_account_infos(authority, token_mint, source_account, destination_account) ==
    <<AccountMeta(TokenKey(source_account), FALSE, TRUE),
      new_readonly(MintKey(token_mint), FALSE),
      AccountMeta(TokenKey(destination_account), FALSE, TRUE),
      new_readonly(WalletKey(authority), TRUE)>>

\* a mutation of append_remaining: every remaining account is appended
RECURSIVE append_remaining_all(_, _, _)
append_remaining_all(account_infos, remaining_accounts, i) ==
    IF i > Len(remaining_accounts) THEN account_infos
    ELSE append_remaining_all(Append(account_infos, new_readonly(remaining_accounts[i], FALSE)),
                              remaining_accounts, i + 1)

\* the closing loop of transfer_with_hook_support: each remaining account
\* whose key is not yet in the list is appended
RECURSIVE append_remaining(_, _, _)
append_remaining(account_infos, remaining_accounts, i) ==
    IF i > Len(remaining_accounts) THEN account_infos
    ELSE IF remaining_accounts[i] \in Keys(account_infos)
    THEN append_remaining(account_infos, remaining_accounts, i + 1)
    ELSE append_remaining(Append(account_infos, new_readonly(remaining_accounts[i], FALSE)),
                          remaining_accounts, i + 1)

Supplied(remaining_accounts) == {remaining_accounts[i] : i \in DOMAIN remaining_accounts}

\* the account list transfer_with_hook_support and
\* transfer_with_hook_support_signed build; remaining_accounts is the
\* sequence of the keys of the accounts supplied
hook_account_infos(authority, token_mint, source_account, destination_account, remaining_accounts) ==
    LET hook_program_id == has_transfer_hook(token_mint)
        base == base_account_infos(authority, token_mint, source_account, destination_account)
        expected_meta == MetaKey(token_mint, hook_program_id)
        with_meta == IF hook_program_id # DefaultPubkey
                        /\ expected_meta \in Supplied(remaining_accounts)
                     THEN Append(base, new_readonly(expected_meta, FALSE))
                     ELSE base
        with_program == IF hook_program_id # DefaultPubkey
                           /\ ProgramKey(hook_program_id) \in Supplied(remaining_accounts)
                        THEN Append(with_meta, new_readonly(ProgramKey(hook_program_id), FALSE))
                        ELSE with_meta
    IN append_remaining(with_program, remaining_accounts, 1)

\* what the token program needs among the accounts of a transfer to call
\* the mint's gate program: the extra-account-metas record, the program,
\* and the accounts the record lists (for TRANSFER_HOOK_ID the owner's KYC
\* record)
hook_accounts_resolved(account_infos, token_mint, owner) ==
    LET hook_program_id == has_transfer_hook(token_mint) IN
    /\ MetaKey(token_mint, hook_program_id) \in Keys(account_infos)
    /\ ProgramKey(hook_program_id) \in Keys(account_infos)
    /\ hook_program_id = TRANSFER_HOOK_ID => KycKey(owner) \in Keys(account_infos)

\* transfer_checked: debits the source, credits the destination with the
\* amount less the mint's transfer fee, then calls the mint's gate program
\* with the accounts it was given
transfer_checked(bal, token_mint, source, destination, owner, amount, account_infos) ==
    IF mints[token_mint].fault # NoFault
    THEN [ok |-> FALSE, e |-> mints[token_mint].fault, balances |-> bal]
    ELSE IF AccountMint(source) # token_mint \/ AccountMint(destination) # token_mint
    THEN [ok |-> FALSE, e |-> {"custom program error", "MintMismatch"}, balances |-> bal]
    ELSE IF bal[source] < amount
    THEN [ok |-> FALSE, e |-> {"insufficient funds"}, balances |-> bal]
    ELSE IF has_transfer_hook(token_mint) # DefaultPubkey
            /\ ~hook_accounts_resolved(account_infos, token_mint, owner)
    THEN [ok |-> FALSE, e |-> {"custom program error", "IncorrectAccount"}, balances |-> bal]
    ELSE LET fee == IF get_epoch_transfer_fee(token_mint).present
                    THEN calculate_fee(get_epoch_transfer_fee(token_mint), amount)
                    ELSE 0
             debited == [bal EXCEPT ![source] = bal[source] - amount]
             moved == [debited EXCEPT ![destination] = debited[destination] + (amount - fee)]
             verdict == IF has_transfer_hook(token_mint) # DefaultPubkey
                        THEN execute_hook(has_transfer_hook(token_mint), token_mint, owner)
                        ELSE "Ok"
         IN IF verdict = "Ok"
            THEN [ok |-> TRUE, e |-> {}, balances |-> moved]
            ELSE [ok |-> FALSE, e |-> {"custom program error", verdict}, balances |-> bal]

\* a mutation of classify_hook_error: the account phrase is looked for
\* first
classify_hook_error_accountfirst(e) ==
    IF Contains(e, "invalid account") THEN "HookAccountResolutionFailed"
    ELSE IF Contains(e, "insufficient compute units") THEN "HookExecutionTimeout"
    ELSE "HookExecutionFailed"

\* the Err arm shared by transfer_from_user_with_hooks and
\* transfer_from_pool_with_hooks
classify_hook_error(e) ==
    IF Contains(e, "insufficient compute units") THEN "HookExecutionTimeout"
    ELSE IF Contains(e, "invalid account") THEN "HookAccountResolutionFailed"
    ELSE "HookExecutionFailed"

\* the error of the plain path is returned unchanged
plain_error(e) == IF Contains(e, "insufficient funds") THEN "InsufficientFunds" ELSE "TransferFailed"

\* the result of a helper: err names the error returned and e is its
\* message (a PoolError's message is its own: the message matched is
\* dropped); source and destination are the accounts of the movement
transfer_from_user_with_hooks(bal, authority, token_mint, token_owner_account, destination_token_account, amount, remaining_accounts) ==
    IF has_transfer_hook(token_mint) # DefaultPubkey
    THEN LET account_infos == hook_account_infos(authority, token_mint, token_owner_account,
                                                 destination_token_account, remaining_accounts)
             r == transfer_checked(bal, token_mint, token_owner_account,
                                   destination_token_account, authority, amount, account_infos)
         IN [err |-> IF r.ok THEN "Ok" ELSE classify_hook_error(r.e),
             e |-> IF r.ok THEN {} ELSE {classify_hook_error(r.e)},
             source |-> token_owner_account, destination |-> destination_token_account,
             balances |-> r.balances,
             remaining_accounts |-> remaining_accounts, account_infos |-> account_infos]
    ELSE LET account_infos == base_account_infos(authority, token_mint, token_owner_account,
                                                 destination_token_account)
             r == transfer_checked(bal, token_mint, token_owner_account,
                                   destination_token_account, authority, amount, account_infos)
         IN [err |-> IF r.ok THEN "Ok" ELSE plain_error(r.e),
             e |-> r.e,
             source |-> token_owner_account, destination |-> destination_token_account,
             balances |-> r.balances,
             remaining_accounts |-> remaining_accounts, account_infos |-> account_infos]

transfer_from_pool_with_hooks(bal, pool_authority, token_mint, token_vault, token_owner_account, amount, remaining_accounts) ==
    IF has_transfer_hook(token_mint) # DefaultPubkey
    THEN LET account_infos == hook_account_infos(pool_authority, token_mint, token_vault,
                                                 token_owner_account, remaining_accounts)
             r == transfer_checked(bal, token_mint, token_vault, token_owner_account,
                                   pool_authority, amount, account_infos)
         IN [err |-> IF r.ok THEN "Ok" ELSE classify_hook_error(r.e),
             e |-> IF r.ok THEN {} ELSE {classify_hook_error(r.e)},
             source |-> token_vault, destination |-> token_owner_account,
             balances |-> r.balances,
             remaining_accounts |-> remaining_accounts, account_infos |-> account_infos]
    ELSE LET account_infos == base_account_infos(pool_authority, token_mint, token_vault,
                                                 token_owner_account)
             r == transfer_checked(bal, token_mint, token_vault, token_owner_account,
                                   pool_authority, amount, account_infos)
         IN [err |-> IF r.ok THEN "Ok" ELSE plain_error(r.e),
             e |-> r.e,
             source |-> token_vault, destination |-> token_owner_account,
             balances |-> r.balances,
             remaining_accounts |-> remaining_accounts, account_infos |-> account_infos]

(***************************************************************************)
(* The Pool account and its pricing. Their code is outside the files at    *)
(* hand; they follow the design document: the fee reference timestamp is   *)
(* refreshed before pricing, pricing is an opaque function whose result    *)
(* the caller of handle_swap below supplies, and applying a result moves   *)
(* the reserves and accrues the fee.                                       *)
(***************************************************************************)
update_pre_swap(p, current_timestamp) ==
    [p EXCEPT !.last_update_timestamp = current_timestamp]

\* FeeMode::get_fee_mode
get_fee_mode(collect_fee_mode, trade_direction, has_referral) ==
    [fees_on_input |-> collect_fee_mode = "OnlyB" /\ trade_direction = "BtoA",
     fees_on_token_a |-> collect_fee_mode = "BothToken" /\ trade_direction = "BtoA",
     has_referral |-> has_referral]

apply_swap_result(p, swap_result, actual_amount_in, trade_direction, current_timestamp) ==
    LET taken == swap_result.output_amount + swap_result.referral_fee + swap_result.protocol_fee IN
    IF trade_direction = "AtoB"
    THEN [p EXCEPT !.reserve_a = p.reserve_a + actual_amount_in,
                   !.reserve_b = p.reserve_b - taken,
                   !.protocol_fee = p.protocol_fee + swap_result.protocol_fee,
                   !.last_update_timestamp = current_timestamp]
    ELSE [p EXCEPT !.reserve_b = p.reserve_b + actual_amount_in,
                   !.reserve_a = p.reserve_a - taken,
                   !.protocol_fee = p.protocol_fee + swap_result.protocol_fee,
                   !.last_update_timestamp = current_timestamp]

(***************************************************************************)
(* handle_swap                                                             *)
(***************************************************************************)
get_trade_direction(input_mint) == IF input_mint = "A" THEN "AtoB" ELSE "BtoA"

UserAccount(m) == IF m = "A" THEN "user_a" ELSE IF m = "B" THEN "user_b" ELSE "user_c"
VaultAccount(m) == IF m = "A" THEN "vault_a" ELSE "vault_b"
ReferralAccount(m) == IF m = "A" THEN "referral_a" ELSE "referral_b"

\* the running state of one invocation: the error (Ok while running), the
\* pool and the balances as written so far, the steps taken, the
\* movements attempted and the events emitted
\* passed: for each movement attempted, the auxiliary accounts handed to
\* its helper and the account list the helper gave the token program
Began ==
    [err |-> "Ok", pool |-> pool, balances |-> balances, trace |-> <<>>, moves |-> <<>>,
     events |-> <<>>, passed |-> <<>>]
Fail(st, err) == [st EXCEPT !.err = err]
Did(st, step) == [st EXCEPT !.trace = Append(@, step)]

\* the ordinary slippage requirement on the fee-excluded output
slippage_ok(transfer_fee_excluded_amount_out, minimum_amount_out) ==
    transfer_fee_excluded_amount_out >= minimum_amount_out

\* the threshold of the enhanced slippage validation for hook-enabled swaps
hook_minimum_amount(minimum_amount_out) ==
    saturating_mul(minimum_amount_out, 100 + HOOK_SLIPPAGE_TOLERANCE) \div 100

\* a mutation of registry_check: without a registry account the validation
\* is skipped
registry_check_optional(has_registry, input_hook_program, output_hook_program) ==
    IF ~has_registry THEN "Ok"
    ELSE IF input_hook_program # DefaultPubkey
            /\ ~is_program_whitelisted(hook_registry, input_hook_program)
    THEN "UnauthorizedHookProgram"
    ELSE IF output_hook_program # DefaultPubkey
            /\ ~is_program_whitelisted(hook_registry, output_hook_program)
    THEN "UnauthorizedHookProgram"
    ELSE "Ok"

\* a mutation of registry_check: only the input asset's gate program is
\* looked up
registry_check_inputonly(has_registry, input_hook_program, output_hook_program) ==
    IF ~has_registry THEN "MissingHookRegistry"
    ELSE IF input_hook_program # DefaultPubkey
            /\ ~is_program_whitelisted(hook_registry, input_hook_program)
    THEN "UnauthorizedHookProgram"
    ELSE "Ok"

\* a mutation of registry_check: one whitelisted hook program is enough
registry_check_anymember(has_registry, input_hook_program, output_hook_program) ==
    IF ~has_registry THEN "MissingHookRegistry"
    ELSE IF \/ (input_hook_program # DefaultPubkey
                /\ is_program_whitelisted(hook_registry, input_hook_program))
            \/ (output_hook_program # DefaultPubkey
                /\ is_program_whitelisted(hook_registry, output_hook_program))
    THEN "Ok"
    ELSE "UnauthorizedHookProgram"

\* the mandatory validation of the hook programs (entered only when one of
\* the two mints declares a hook)
registry_check(has_registry, input_hook_program, output_hook_program) ==
    IF ~has_registry THEN "MissingHookRegistry"
    ELSE IF input_hook_program # DefaultPubkey
            /\ ~is_program_whitelisted(hook_registry, input_hook_program)
    THEN "UnauthorizedHookProgram"
    ELSE IF output_hook_program # DefaultPubkey
            /\ ~is_program_whitelisted(hook_registry, output_hook_program)
    THEN "UnauthorizedHookProgram"
    ELSE "Ok"

\* a mutation of Movement: the error of a movement is dropped and the swap
\* goes on
Movement_swallow(st, leg, r, token_mint, amount) ==
    LET tried == [st EXCEPT !.trace = Append(st.trace, leg),
                            !.moves = Append(st.moves,
                                [leg |-> leg, mint |-> token_mint, amount |-> amount,
                                 source |-> r.source, destination |-> r.destination,
                                 ok |-> r.err = "Ok"]),
                            !.passed = Append(st.passed,
                                [leg |-> leg, err |-> r.err,
                                 remaining_accounts |-> r.remaining_accounts,
                                 account_infos |-> r.account_infos])]
    IN IF r.err = "Ok" THEN [tried EXCEPT !.balances = r.balances] ELSE tried

\* a mutation of Movement: a movement that failed is attempted once more
Movement_again(st, leg, r, token_mint, amount) ==
    LET tried == [st EXCEPT !.trace = Append(st.trace, leg),
                            !.moves = Append(st.moves,
                                [leg |-> leg, mint |-> token_mint, amount |-> amount,
                                 source |-> r.source, destination |-> r.destination,
                                 ok |-> r.err = "Ok"]),
                            !.passed = Append(st.passed,
                                [leg |-> leg, err |-> r.err,
                                 remaining_accounts |-> r.remaining_accounts,
                                 account_infos |-> r.account_infos])]
        again == [tried EXCEPT !.trace = Append(tried.trace, leg),
                               !.moves = Append(tried.moves, tried.moves[Len(tried.moves)]),
                               !.passed = Append(tried.passed, tried.passed[Len(tried.passed)])]
    IN IF r.err = "Ok" THEN [tried EXCEPT !.balances = r.balances] ELSE Fail(again, r.err)

\* one movement: the attempt is recorded, then it succeeds or ends the swap
\* (res: the result r of the helper, which is called once)
Movement(st, leg, r, token_mint, amount) ==
    CHOOSE after \in
        {[st EXCEPT !.trace = Append(@, leg),
                    !.moves = Append(@,
                        [leg |-> leg, mint |-> token_mint, amount |-> amount,
                         source |-> res.source, destination |-> res.destination,
                         ok |-> res.err = "Ok"]),
                    !.passed = Append(@,
                        [leg |-> leg, err |-> res.err,
                         remaining_accounts |-> res.remaining_accounts,
                         account_infos |-> res.account_infos]),
                    !.balances = IF res.err = "Ok" THEN res.balances ELSE @,
                    !.err = res.err] : res \in {r}} : TRUE

\* a mutation of EvtSwap: actual_amount_in is the amount the payer gave
EvtSwap_gross(req, trade_direction, actual_amount_in) ==
    [trade_direction |-> trade_direction,
     params |-> [amount_in |-> req.amount_in, minimum_amount_out |-> req.minimum_amount_out],
     swap_result |-> req.swap_result,
     has_referral |-> req.has_referral,
     actual_amount_in |-> req.amount_in]

\* the event of a swap (the pool's key and the timestamp are left out)
EvtSwap(req, trade_direction, actual_amount_in) ==
    [trade_direction |-> trade_direction,
     params |-> [amount_in |-> req.amount_in, minimum_amount_out |-> req.minimum_amount_out],
     swap_result |-> req.swap_result,
     has_referral |-> req.has_referral,
     actual_amount_in |-> actual_amount_in]

\* a mutation of hook_accounts: the accounts supplied are passed on whether
\* or not a mint declares a gate program
hook_accounts_always(req, token_in_mint, token_out_mint) ==
    [input |-> req.remaining_accounts, output |-> req.remaining_accounts]

\* the auxiliary accounts of the input and of the output movement, lines
\* 178-182
hook_accounts(req, token_in_mint, token_out_mint) ==
    IF has_transfer_hook(token_in_mint) # DefaultPubkey
       \/ has_transfer_hook(token_out_mint) # DefaultPubkey
    THEN [input |-> req.remaining_accounts, output |-> req.remaining_accounts]
    ELSE [input |-> <<>>, output |-> <<>>]

\* a mutation of referral_hook_accounts: the set of the leg is taken whether
\* or not the referral mint declares a gate program
referral_hook_accounts_always(referral_mint, token_in_mint, input_hook_accounts, output_hook_accounts) ==
    IF referral_mint = token_in_mint THEN input_hook_accounts ELSE output_hook_accounts

\* the auxiliary accounts of the referral movement, lines 217-243
referral_hook_accounts(referral_mint, token_in_mint, input_hook_accounts, output_hook_accounts) ==
    IF has_transfer_hook(referral_mint) # DefaultPubkey
    THEN IF referral_mint = token_in_mint THEN input_hook_accounts ELSE output_hook_accounts
    ELSE <<>>

\* send to reserve (user -> vault), lines 193-202
input_movement(st, req, token_in_mint, token_out_mint) ==
    Movement(st, "input",
        transfer_from_user_with_hooks(st.balances, PAYER, token_in_mint,
            UserAccount(req.input_mint), VaultAccount(token_in_mint), req.amount_in,
            hook_accounts(req, token_in_mint, token_out_mint).input),
        token_in_mint, req.amount_in)

\* send to user (vault -> user), lines 204-213; not reached after an error
output_movement(st, req, token_in_mint, token_out_mint) ==
    IF st.err # "Ok" THEN st
    ELSE Movement(st, "output",
             transfer_from_pool_with_hooks(st.balances, POOL_AUTHORITY, token_out_mint,
                 VaultAccount(token_out_mint), UserAccount(token_out_mint),
                 req.swap_result.output_amount,
                 hook_accounts(req, token_in_mint, token_out_mint).output),
             token_out_mint, req.swap_result.output_amount)

\* the mint of the referral fee, lines 217-243
referral_mint(fee_mode) == IF fee_mode.fees_on_token_a THEN "A" ELSE "B"

\* send to referral (if applicable), lines 214-254; not reached after an
\* error
referral_movement(st, req, token_in_mint, token_out_mint, fee_mode) ==
    IF st.err # "Ok" \/ ~req.has_referral THEN st
    ELSE Movement(st, "referral",
             transfer_from_pool_with_hooks(st.balances, POOL_AUTHORITY,
                 referral_mint(fee_mode), VaultAccount(referral_mint(fee_mode)),
                 ReferralAccount(referral_mint(fee_mode)), req.swap_result.referral_fee,
                 referral_hook_accounts(referral_mint(fee_mode), token_in_mint,
                     hook_accounts(req, token_in_mint, token_out_mint).input,
                     hook_accounts(req, token_in_mint, token_out_mint).output)),
             referral_mint(fee_mode), req.swap_result.referral_fee)

\* emit_cpi!(EvtSwap), lines 256-264; not reached after an error
emit_swap(st, req, token_in_mint, actual_amount_in) ==
    IF st.err # "Ok" THEN st
    ELSE [st EXCEPT !.trace = Append(@, "emit"),
                    !.events = Append(@, EvtSwap(req, get_trade_direction(token_in_mint),
                                                 actual_amount_in))]

\* a mutation of settle: the output movement comes before the input movement
settle_outputfirst(st, req, token_in_mint, token_out_mint, fee_mode, actual_amount_in) ==
    LET s1 == output_movement(st, req, token_in_mint, token_out_mint) IN
    emit_swap(
        referral_movement(
            IF s1.err # "Ok" THEN s1
            ELSE input_movement(s1, req, token_in_mint, token_out_mint),
            req, token_in_mint, token_out_mint, fee_mode),
        req, token_in_mint, actual_amount_in)

\* the three movements and the event, lines 193-264
settle(st, req, token_in_mint, token_out_mint, fee_mode, actual_amount_in) ==
    emit_swap(
        referral_movement(
            output_movement(
                input_movement(st, req, token_in_mint, token_out_mint),
                req, token_in_mint, token_out_mint),
            req, token_in_mint, token_out_mint, fee_mode),
        req, token_in_mint, actual_amount_in)

\* a mutation of handle_swap: the swap result is applied to the pool after
\* the movements
handle_swap_movefirst(req) ==
    IF ~req.can_swap THEN Fail(Began, "PoolDisabled") ELSE
    LET trade_direction == get_trade_direction(req.input_mint)
        token_in_mint == IF trade_direction = "AtoB" THEN "A" ELSE "B"
        token_out_mint == IF trade_direction = "AtoB" THEN "B" ELSE "A"
        amount_in_excluded == calculate_transfer_fee_excluded_amount(token_in_mint, req.amount_in)
    IN IF amount_in_excluded.err # "Ok" THEN Fail(Began, amount_in_excluded.err) ELSE
       IF ~(amount_in_excluded.amount > 0) THEN Fail(Began, "AmountIsZero") ELSE
    LET current_timestamp == pool.last_update_timestamp + 1
        s1 == [Did(Began, "update_pre_swap") EXCEPT !.pool = update_pre_swap(pool, current_timestamp)]
        fee_mode == get_fee_mode(pool.collect_fee_mode, trade_direction, req.has_referral)
        swap_result == req.swap_result
        s2 == Did(s1, "get_swap_result")
        amount_out_excluded == calculate_transfer_fee_excluded_amount(token_out_mint,
                                                                      swap_result.output_amount)
    IN IF amount_out_excluded.err # "Ok" THEN Fail(s2, amount_out_excluded.err) ELSE
    LET s2a == Did(s2, "slippage_check")
    IN IF ~slippage_ok(amount_out_excluded.amount, req.minimum_amount_out)
       THEN Fail(s2a, "ExceededSlippage") ELSE
    LET input_hook_program == has_transfer_hook(token_in_mint)
        output_hook_program == has_transfer_hook(token_out_mint)
        has_hook == input_hook_program # DefaultPubkey \/ output_hook_program # DefaultPubkey
        s2b == IF has_hook THEN Did(s2a, "hook_slippage_check") ELSE s2a
    IN IF has_hook /\ ~(amount_out_excluded.amount >= hook_minimum_amount(req.minimum_amount_out))
       THEN Fail(s2b, "InvalidHookSlippageTolerance") ELSE
    LET checked == IF has_hook
                   THEN registry_check(req.has_registry, input_hook_program, output_hook_program)
                   ELSE "Ok"
        s3 == IF has_hook THEN Did(s2b, "registry_check") ELSE s2b
    IN IF checked # "Ok" THEN Fail(s3, checked) ELSE
    LET s4 == settle(s3, req, token_in_mint, token_out_mint, fee_mode, amount_in_excluded.amount)
    IN IF s4.err # "Ok" THEN s4
       ELSE [Did(s4, "apply_swap_result") EXCEPT
                !.pool = apply_swap_result(s4.pool, swap_result, amount_in_excluded.amount,
                                           trade_direction, current_timestamp)]


\* req: can_swap (the pool's access validator admits the payer), input_mint
\* (the mint of input_token_account), amount_in, minimum_amount_out,
\* has_referral, has_registry (a hook registry account was passed), and
\* swap_result (what pricing returns for this swap)
handle_swap(req) ==
    IF ~req.can_swap THEN Fail(Began, "PoolDisabled") ELSE
    LET trade_direction == get_trade_direction(req.input_mint)
        token_in_mint == IF trade_direction = "AtoB" THEN "A" ELSE "B"
        token_out_mint == IF trade_direction = "AtoB" THEN "B" ELSE "A"
        amount_in_excluded == calculate_transfer_fee_excluded_amount(token_in_mint, req.amount_in)
    IN IF amount_in_excluded.err # "Ok" THEN Fail(Began, amount_in_excluded.err) ELSE
       IF ~(amount_in_excluded.amount > 0) THEN Fail(Began, "AmountIsZero") ELSE
    LET current_timestamp == pool.last_update_timestamp + 1
        s1 == [Did(Began, "update_pre_swap") EXCEPT !.pool = update_pre_swap(pool, current_timestamp)]
        fee_mode == get_fee_mode(pool.collect_fee_mode, trade_direction, req.has_referral)
        swap_result == req.swap_result
        s2 == Did(s1, "get_swap_result")
        amount_out_excluded == calculate_transfer_fee_excluded_amount(token_out_mint,
                                                                      swap_result.output_amount)
    IN IF amount_out_excluded.err # "Ok" THEN Fail(s2, amount_out_excluded.err) ELSE
    LET s2a == Did(s2, "slippage_check")
    IN IF ~slippage_ok(amount_out_excluded.amount, req.minimum_amount_out)
       THEN Fail(s2a, "ExceededSlippage") ELSE
    LET input_hook_program == has_transfer_hook(token_in_mint)
        output_hook_program == has_transfer_hook(token_out_mint)
        has_hook == input_hook_program # DefaultPubkey \/ output_hook_program # DefaultPubkey
        s2b == IF has_hook THEN Did(s2a, "hook_slippage_check") ELSE s2a
    IN IF has_hook /\ ~(amount_out_excluded.amount >= hook_minimum_amount(req.minimum_amount_out))
       THEN Fail(s2b, "InvalidHookSlippageTolerance") ELSE
    LET s3 == [Did(s2b, "apply_swap_result") EXCEPT
                  !.pool = apply_swap_result(s2b.pool, swap_result, amount_in_excluded.amount,
                                             trade_direction, current_timestamp)]
        checked == IF has_hook
                   THEN registry_check(req.has_registry, input_hook_program, output_hook_program)
                   ELSE "Ok"
        s4 == IF has_hook THEN Did(s3, "registry_check") ELSE s3
    IN IF checked # "Ok" THEN Fail(s4, checked)
       ELSE settle(s4, req, token_in_mint, token_out_mint, fee_mode, amount_in_excluded.amount)

\* the outcome kept in `last`; mutated: the invocation had written to the
\* pool account when it returned
SwapOutcome(req, r) ==
    [op |-> "swap", err |-> r.err, req |-> req, trace |-> r.trace, moves |-> r.moves,
     events |-> r.events, mutated |-> r.pool # pool, passed |-> r.passed]

\* One swap instruction. An instruction that returns an error leaves every
\* account as it was before the instruction.
Swap(req) ==
    /\ pool.last_update_timestamp < MaxTime
    /\ \E r \in {handle_swap(req)} :
          /\ pool' = IF r.err = "Ok" THEN r.pool ELSE pool
          /\ balances' = IF r.err = "Ok" THEN r.balances ELSE balances
          /\ last' = SwapOutcome(req, r)
    /\ UNCHANGED <<hook_registry, mints, user_kyc>>

(***************************************************************************)
(* The compliance record instructions of the transfer-hook program         *)
(***************************************************************************)
\* bitwise or / and-not of two flag bytes, bit by bit
RECURSIVE BitOr(_, _, _)
BitOr(a, b, bit) ==
    IF bit > 128 THEN 0
    ELSE (IF TestBit(a, bit) \/ TestBit(b, bit) THEN bit ELSE 0) + BitOr(a, b, bit * 2)
RECURSIVE BitAndNot(_, _, _)
BitAndNot(a, b, bit) ==
    IF bit > 128 THEN 0
    ELSE (IF TestBit(a, bit) /\ ~TestBit(b, bit) THEN bit ELSE 0) + BitAndNot(a, b, bit * 2)

\* strings: the two-letter alphabetic ones, the alphanumeric ones of at
\* most two characters, and to_uppercase, on the strings the model passes
NoString == "(none)"
IsTwoLetters(str) == str \in {"US", "FR", "fr"}
IsShortAlnum(str) == str \in {"", "CA", "ca", "US", "FR", "fr", "U1"}
to_uppercase(str) == IF str = "fr" THEN "FR" ELSE IF str = "ca" THEN "CA" ELSE str

\* the arguments of update_user_kyc; -1 and NoString stand for None
NoUpdate ==
    [new_kyc_level |-> -1, new_risk_score |-> -1, flags_to_set |-> -1, flags_to_clear |-> -1,
     new_country |-> NoString, new_state |-> NoString]

\* a mutation of update_user_kyc: the tier is stored without the range
\* check
update_user_kyc_anylevel(k0, args) ==
    [err |-> "Ok",
     kyc |-> IF args.new_kyc_level # -1 THEN [k0 EXCEPT !.kyc_level = args.new_kyc_level]
             ELSE k0]

\* the body of handle_update_user_kyc on a record: the error, and the record
\* as written when the error is met
update_user_kyc(k0, args) ==
    IF args.new_kyc_level # -1 /\ ~(args.new_kyc_level <= INSTITUTIONAL)
    THEN [err |-> "InvalidKycLevel", kyc |-> k0] ELSE
    LET k1 == IF args.new_kyc_level # -1
              THEN [k0 EXCEPT !.kyc_level = args.new_kyc_level] ELSE k0
        k2 == IF args.new_risk_score # -1
              THEN [k1 EXCEPT !.risk_score = args.new_risk_score] ELSE k1
        k3 == IF args.flags_to_set # -1
              THEN [k2 EXCEPT !.flags = BitOr(k2.flags, args.flags_to_set, 1)] ELSE k2
        k4 == IF args.flags_to_clear # -1
              THEN [k3 EXCEPT !.flags = BitAndNot(k3.flags, args.flags_to_clear, 1)] ELSE k3
    IN IF args.new_country # NoString /\ ~IsTwoLetters(args.new_country)
       THEN [err |-> "InvalidCountryCode", kyc |-> k4] ELSE
    LET k5 == IF args.new_country # NoString
              THEN [k4 EXCEPT !.country = to_uppercase(args.new_country)] ELSE k4
    IN IF args.new_state # NoString /\ ~IsShortAlnum(args.new_state)
       THEN [err |-> "InvalidStateCode", kyc |-> k5] ELSE
    LET k6 == IF args.new_state # NoString
              THEN [k5 EXCEPT !.state = to_uppercase(args.new_state)] ELSE k5
    IN [err |-> "Ok", kyc |-> k6]

\* update_user_kyc signed by `authority` for the record of `user`. The
\* accounts need the record to exist; an instruction that fails leaves it
\* as it was.
handle_update_user_kyc(authority, user, args) ==
    LET r == IF user_kyc[user].initialized
             THEN update_user_kyc(user_kyc[user], args)
             ELSE [err |-> "AccountNotInitialized", kyc |-> user_kyc[user]]
    IN /\ user_kyc' = [user_kyc EXCEPT ![user] = IF r.err = "Ok" THEN r.kyc ELSE @]
       /\ last' = [op |-> "update_user_kyc", err |-> r.err, signer |-> authority,
                   user |-> user, args |-> args]
       /\ UNCHANGED <<hook_registry, mints, pool, balances>>

\* initialize_user_kyc paid by `payer` for the record of `user`; the account
\* is created by it, so it must not exist yet
handle_initialize_user_kyc(payer, user, kyc_level, country, state) ==
    LET err == IF user_kyc[user].initialized THEN "AccountAlreadyInUse"
               ELSE IF ~(kyc_level <= INSTITUTIONAL) THEN "InvalidKycLevel"
               ELSE IF ~IsTwoLetters(country) THEN "InvalidCountryCode"
               ELSE IF ~IsShortAlnum(state) THEN "InvalidStateCode"
               ELSE "Ok"
    IN /\ user_kyc' = [user_kyc EXCEPT ![user] =
                          IF err = "Ok"
                          THEN NewUserKyc(kyc_level, to_uppercase(country), to_uppercase(state))
                          ELSE @]
       /\ last' = [op |-> "initialize_user_kyc", err |-> err, signer |-> payer, user |-> user,
                   args |-> [kyc_level |-> kyc_level, country |-> country, state |-> state]]
       /\ UNCHANGED <<hook_registry, mints, pool, balances>>

(***************************************************************************)
(* The registry on its own: created by some authority, possibly already    *)
(* holding Prefilled programs, then driven by any sequence of add, remove  *)
(* and authority updates by any signer.                                    *)
(***************************************************************************)
RegistryIds == ProgramIds \cup {FillerId(1)}

InitRegistry ==
    /\ \E a \in Signers : \E n \in {0, Prefilled} :
           hook_registry = AfterAdds(handle_create_hook_registry(a), n)
    /\ last = NoRegOp
    /\ mints = [m \in {"A", "B"} |-> [hook |-> DefaultPubkey, fee |-> NoMintFee, metadata |-> NoRwaMetadata, fault |-> NoFault]]
    /\ pool = [collect_fee_mode |-> "BothToken", reserve_a |-> 0, reserve_b |-> 0,
               protocol_fee |-> 0, last_update_timestamp |-> 0]
    /\ balances = [a \in {"user_a", "user_b", "vault_a", "vault_b", "referral_a", "referral_b"} |-> 0]
    /\ user_kyc = [o \in {PAYER, POOL_AUTHORITY} |-> EligibleKyc]

AddHookProgram == \E s \in Signers, p \in RegistryIds : handle_add_hook_program(s, p)
RemoveHookProgram == \E s \in Signers, p \in RegistryIds : handle_remove_hook_program(s, p)
UpdateHookRegistryAuthority ==
    \E s \in Signers, a \in Signers : handle_update_hook_registry_authority(s, a)

ValidateHookProgram == \E p \in RegistryIds : validate_hook_program(p)

NextRegistry ==
    \/ AddHookProgram
    \/ RemoveHookProgram
    \/ UpdateHookRegistryAuthority
    \/ ValidateHookProgram

SpecRegistry == InitRegistry /\ [][NextRegistry]_vars

(***************************************************************************)
(* The exchange: a pool of mints A and B, the registry managed by its      *)
(* authority, the payer's compliance record, and swaps.                    *)
(***************************************************************************)

\* the gate programs of (A, B): none; A gated by the transfer-hook program;
\* A gated by it and B by another program
HookScenarios ==
    {<<DefaultPubkey, DefaultPubkey>>, <<TRANSFER_HOOK_ID, DefaultPubkey>>,
     <<TRANSFER_HOOK_ID, OtherHookId>>}


Init ==
    /\ hook_registry = handle_create_hook_registry(PAYER)
    /\ \E h \in HookScenarios :
          mints = [m \in {"A", "B"} |->
                     IF m = "A" THEN [hook |-> h[1], fee |-> NoMintFee, metadata |-> NoRwaMetadata, fault |-> NoFault]
                     ELSE [hook |-> h[2], fee |-> MintFee, metadata |-> NoRwaMetadata, fault |-> NoFault]]
    /\ \E mode \in {"BothToken", "OnlyB"} :
          pool = [collect_fee_mode |-> mode, reserve_a |-> VaultStart, reserve_b |-> VaultStart,
                  protocol_fee |-> 0, last_update_timestamp |-> 0]
    /\ balances = [a \in {"user_a", "user_b", "vault_a", "vault_b", "referral_a", "referral_b"} |->
                     IF a \in {"user_a", "user_b"} THEN AmountIn
                     ELSE IF a \in {"vault_a", "vault_b"} THEN VaultStart ELSE 0]
    /\ user_kyc = [o \in {PAYER, POOL_AUTHORITY} |-> EligibleKyc]
    /\ last = NoRegOp

\* what pricing may return: below the minimum, just above it, and above
\* one and a half times the minimum
SwapResults ==
    {[output_amount |-> o, referral_fee |-> ReferralFee, protocol_fee |-> ProtocolFee] :
        o \in {MinOut - 1, MinOut + 2, (3 * MinOut) \div 2 + 4}}

\* the auxiliary accounts a caller passes who resolved every gate program
\* either mint may declare
FullAccounts ==
    <<MetaKey("A", TRANSFER_HOOK_ID), MetaKey("A", OtherHookId),
      MetaKey("B", TRANSFER_HOOK_ID), MetaKey("B", OtherHookId),
      ProgramKey(TRANSFER_HOOK_ID), ProgramKey(OtherHookId),
      KycKey(PAYER), KycKey(POOL_AUTHORITY)>>

AllSwapRequests ==
    [can_swap : BOOLEAN,
     input_mint : {"A", "B"},
     amount_in : {0, 1, AmountIn},
     minimum_amount_out : {0, MinOut},
     has_referral : BOOLEAN,
     has_registry : BOOLEAN,
     swap_result : SwapResults,
     remaining_accounts : {FullAccounts}]

\* a request varies either its amounts or its accounts
PlainAmounts(req) ==
    /\ req.amount_in = AmountIn
    /\ req.minimum_amount_out = MinOut
    /\ req.swap_result.output_amount = (3 * MinOut) \div 2 + 4
PlainAccounts(req) == req.can_swap /\ req.has_registry /\ ~req.has_referral
\* a request for a very large output, priced just above its minimum
LargeSwapRequests ==
    {[can_swap |-> TRUE, input_mint |-> m, amount_in |-> AmountIn,
      minimum_amount_out |-> LargeMinOut, has_referral |-> FALSE, has_registry |-> TRUE,
      swap_result |-> [output_amount |-> LargeMinOut + 2, referral_fee |-> ReferralFee,
                       protocol_fee |-> ProtocolFee],
      remaining_accounts |-> FullAccounts] : m \in {"A", "B"}}
SwapRequests ==
    {req \in AllSwapRequests : PlainAmounts(req) \/ PlainAccounts(req)} \cup LargeSwapRequests

SwapStep == \E req \in SwapRequests : Swap(req)
AddGate == \E p \in {TRANSFER_HOOK_ID, OtherHookId} : handle_add_hook_program(PAYER, p)
RemoveGate == \E p \in {TRANSFER_HOOK_ID, OtherHookId} : handle_remove_hook_program(PAYER, p)
Freeze ==
    \E u \in {PAYER, POOL_AUTHORITY} :
        handle_update_user_kyc(PAYER, u, [NoUpdate EXCEPT !.flags_to_set = FLAG_FROZEN])
Unfreeze ==
    \E u \in {PAYER, POOL_AUTHORITY} :
        handle_update_user_kyc(PAYER, u, [NoUpdate EXCEPT !.flags_to_clear = FLAG_FROZEN])

Next ==
    \/ SwapStep
    \/ AddGate
    \/ RemoveGate
    \/ Freeze
    \/ Unfreeze

Spec == Init /\ [][Next]_vars

(***************************************************************************)
(* Swaps as their accounts vary: the auxiliary accounts the caller         *)
(* supplies, the mint of the input token account (which the accounts       *)
(* struct does not tie to the pool), the referral account and the          *)
(* registry account; a mint's gate program may run out of compute units.   *)
(***************************************************************************)
AuxHookScenarios == HookScenarios \cup {<<DefaultPubkey, OtherHookId>>}

\* what a caller may supply: nothing; everything; everything in another
\* order; accounts twice, accounts of the transfer itself and a stranger;
\* everything but the extra-account-metas records
RemainingChoices ==
    {<<>>,
     FullAccounts,
     <<KycKey(POOL_AUTHORITY), KycKey(PAYER), ProgramKey(OtherHookId),
       ProgramKey(TRANSFER_HOOK_ID), MetaKey("B", OtherHookId), MetaKey("B", TRANSFER_HOOK_ID),
       MetaKey("A", OtherHookId), MetaKey("A", TRANSFER_HOOK_ID)>>,
     <<KycKey(PAYER), TokenKey("user_a"), KycKey(PAYER), ProgramKey(TRANSFER_HOOK_ID),
       MintKey("B"), WalletKey(MaxSigner), MetaKey("A", TRANSFER_HOOK_ID), WalletKey(PAYER),
       ProgramKey(TRANSFER_HOOK_ID), KycKey(POOL_AUTHORITY), TokenKey("vault_a")>>,
     <<ProgramKey(TRANSFER_HOOK_ID), ProgramKey(OtherHookId), KycKey(PAYER),
       KycKey(POOL_AUTHORITY)>>}

AuxSwapRequests ==
    [can_swap : {TRUE},
     input_mint : {"A", "B", "C"},
     amount_in : {AmountIn},
     minimum_amount_out : {MinOut},
     has_referral : BOOLEAN,
     has_registry : BOOLEAN,
     swap_result : {[output_amount |-> (3 * MinOut) \div 2 + 4, referral_fee |-> ReferralFee,
                     protocol_fee |-> ProtocolFee]},
     remaining_accounts : RemainingChoices]

InitAux ==
    /\ hook_registry = add_program(add_program(handle_create_hook_registry(PAYER),
                                               TRANSFER_HOOK_ID).reg, OtherHookId).reg
    /\ \E h \in AuxHookScenarios, faulty \in {"none", "A", "B"} :
          mints = [m \in {"A", "B"} |->
                     [hook |-> IF m = "A" THEN h[1] ELSE h[2], fee |-> NoMintFee,
                      metadata |-> NoRwaMetadata,
                      fault |-> IF m = faulty THEN {"insufficient compute units"} ELSE NoFault]]
    /\ \E mode \in {"BothToken", "OnlyB"} :
          pool = [collect_fee_mode |-> mode, reserve_a |-> VaultStart, reserve_b |-> VaultStart,
                  protocol_fee |-> 0, last_update_timestamp |-> 0]
    /\ balances = [a \in {"user_a", "user_b", "vault_a", "vault_b", "referral_a", "referral_b"} |->
                     IF a \in {"user_a", "user_b"} THEN AmountIn
                     ELSE IF a \in {"vault_a", "vault_b"} THEN VaultStart ELSE 0]
    /\ user_kyc = [o \in {PAYER, POOL_AUTHORITY} |-> EligibleKyc]
    /\ last = NoRegOp

SwapAux == \E req \in AuxSwapRequests : Swap(req)

NextAux ==
    \/ SwapAux
    \/ AddGate
    \/ RemoveGate

SpecAux == InitAux /\ [][NextAux]_vars

(***************************************************************************)
(* The fee conversions on their own: mint A carries any of a few transfer  *)
(* fee schedules (or none) and the two conversions are applied to small    *)
(* and to very large amounts.                                              *)
(***************************************************************************)
FeeRates == {0, FeeBasisPoints, 25 * FeeBasisPoints, MAX_FEE_BASIS_POINTS}
FeeCaps == {0, MaximumFee, U64_MAX}
FeeSchedules ==
    {NoMintFee} \cup
    {[present |-> TRUE, transfer_fee_basis_points |-> b, maximum_fee |-> c] :
        b \in FeeRates, c \in FeeCaps}
FeeAmounts == (0..FeeMaxAmount) \cup ((U64_MAX - FeeMargin)..U64_MAX)

InitFee ==
    /\ \E f \in FeeSchedules :
          mints = [m \in {"A", "B"} |->
                     [hook |-> DefaultPubkey, fee |-> IF m = "A" THEN f ELSE NoMintFee,
                      metadata |-> NoRwaMetadata, fault |-> NoFault]]
    /\ hook_registry = handle_create_hook_registry(PAYER)
    /\ pool = [collect_fee_mode |-> "BothToken", reserve_a |-> 0, reserve_b |-> 0,
               protocol_fee |-> 0, last_update_timestamp |-> 0]
    /\ balances = [a \in {"user_a", "user_b", "vault_a", "vault_b", "referral_a", "referral_b"} |-> 0]
    /\ user_kyc = [o \in {PAYER, POOL_AUTHORITY} |-> EligibleKyc]
    /\ last = NoRegOp

ExcludeFee ==
    \E x \in FeeAmounts :
        /\ last' = [op |-> "exclude", x |-> x,
                    res |-> calculate_transfer_fee_excluded_amount("A", x)]
        /\ UNCHANGED <<hook_registry, others>>

IncludeFee ==
    \E y \in FeeAmounts :
        /\ last' = [op |-> "include", x |-> y,
                    res |-> calculate_transfer_fee_included_amount("A", y)]
        /\ UNCHANGED <<hook_registry, others>>

\* exclude the fee from x, include it again, and exclude it once more
RoundTrip ==
    \E x \in FeeAmounts :
        LET excluded == calculate_transfer_fee_excluded_amount("A", x)
            included == calculate_transfer_fee_included_amount("A", excluded.amount)
            again == calculate_transfer_fee_excluded_amount("A", included.amount)
        IN /\ excluded.err = "Ok"
           /\ last' = [op |-> "round_trip", x |-> x, excluded |-> excluded,
                       included |-> included, again |-> again]
           /\ UNCHANGED <<hook_registry, others>>

\* include the fee in y, then exclude it from the amount returned
IncludeExclude ==
    \E y \in FeeAmounts :
        LET included == calculate_transfer_fee_included_amount("A", y)
            excluded == calculate_transfer_fee_excluded_amount("A", included.amount)
        IN /\ included.err = "Ok"
           /\ last' = [op |-> "include_exclude", x |-> y, included |-> included,
                       excluded |-> excluded]
           /\ UNCHANGED <<hook_registry, others>>

NextFee ==
    \/ ExcludeFee
    \/ IncludeFee
    \/ RoundTrip
    \/ IncludeExclude

SpecFee == InitFee /\ [][NextFee]_vars

(***************************************************************************)
(* The 64-bit arithmetic outside the fee conversions: the volume counters  *)
(* of a compliance record, and the threshold of the enhanced slippage      *)
(* validation. The record starts with any of a few counter values and      *)
(* reset markers.                                                          *)
(***************************************************************************)
Days == 0..MaxDay
VolumeValues == {0, VolumeUnit, U64_MAX - 1}
VolumeAmounts == {0, VolumeUnit, U64_MAX}
ThresholdInputs ==
    {0, MinOut, U64_MAX} \cup
    {U64_MAX \div (100 + HOOK_SLIPPAGE_TOLERANCE) + k : k \in 0..VolumeUnit}

InitArith ==
    /\ \E dv \in VolumeValues, mv \in VolumeValues, d \in Days, m \in Days :
          user_kyc = [o \in {PAYER, POOL_AUTHORITY} |->
                        IF o = PAYER
                        THEN [EligibleKyc EXCEPT !.daily_volume = dv, !.monthly_volume = mv,
                                                 !.last_reset_day = d, !.last_reset_month = m]
                        ELSE NoUserKyc]
    /\ mints = [m \in {"A", "B"} |-> [hook |-> DefaultPubkey, fee |-> NoMintFee, metadata |-> NoRwaMetadata, fault |-> NoFault]]
    /\ hook_registry = handle_create_hook_registry(PAYER)
    /\ pool = [collect_fee_mode |-> "BothToken", reserve_a |-> 0, reserve_b |-> 0,
               protocol_fee |-> 0, last_update_timestamp |-> 0]
    /\ balances = [a \in {"user_a", "user_b", "vault_a", "vault_b", "referral_a", "referral_b"} |-> 0]
    /\ last = NoRegOp

UpdateDailyVolume ==
    \E day \in Days, amount \in VolumeAmounts :
        /\ last' = [op |-> "update_daily_volume", before |-> user_kyc[PAYER],
                    current |-> day, amount |-> amount,
                    after |-> update_daily_volume(user_kyc[PAYER], day, amount)]
        /\ UNCHANGED <<hook_registry, others>>

UpdateMonthlyVolume ==
    \E month \in Days, amount \in VolumeAmounts :
        /\ last' = [op |-> "update_monthly_volume", before |-> user_kyc[PAYER],
                    current |-> month, amount |-> amount,
                    after |-> update_monthly_volume(user_kyc[PAYER], month, amount)]
        /\ UNCHANGED <<hook_registry, others>>

HookMinimumAmount ==
    \E m \in ThresholdInputs :
        /\ last' = [op |-> "hook_minimum_amount", minimum_amount_out |-> m,
                    res |-> hook_minimum_amount(m)]
        /\ UNCHANGED <<hook_registry, others>>

NextArith ==
    \/ UpdateDailyVolume
    \/ UpdateMonthlyVolume
    \/ HookMinimumAmount

SpecArith == InitArith /\ [][NextArith]_vars

(***************************************************************************)
(* The transfer-hook program on its own: the payer's compliance record is  *)
(* created and updated by any signer, and the hook is invoked for          *)
(* transfers of two gated mints: A declares no geographic restriction, B   *)
(* allows one country and restricts one of its states.                     *)
(***************************************************************************)
RestrictedRwaMetadata ==
    [allowed_countries |-> Some({"US"}), restricted_states |-> Some({<<"US", "CA">>})]

KycLevels == {0, BASIC, INSTITUTIONAL, INSTITUTIONAL + 1}
RiskScores == {2 * INITIAL_RISK_SCORE, 2 * INITIAL_RISK_SCORE + 1}
FlagsToSet == {FLAG_SANCTIONS, FLAG_PEP, FLAG_FROZEN, FLAG_EXPIRED}
FlagsToClear == {FLAG_SANCTIONS + FLAG_PEP + FLAG_FROZEN + FLAG_EXPIRED}
CountryInputs == {"US", "fr", "U1"}
StateInputs == {"", "ca", "C-"}

\* the amounts of the transfers the hook is invoked for
HookAmounts == {1, VolumeUnit}

\* an update changes one field, or a tier together with a country
UpdateArgs ==
    {[NoUpdate EXCEPT !.new_kyc_level = l] : l \in KycLevels}
    \cup {[NoUpdate EXCEPT !.new_risk_score = r] : r \in RiskScores}
    \cup {[NoUpdate EXCEPT !.flags_to_set = f] : f \in FlagsToSet}
    \cup {[NoUpdate EXCEPT !.flags_to_clear = f] : f \in FlagsToClear}
    \cup {[NoUpdate EXCEPT !.new_country = c] : c \in CountryInputs}
    \cup {[NoUpdate EXCEPT !.new_state = t] : t \in StateInputs}
    \cup {[NoUpdate EXCEPT !.new_kyc_level = l, !.new_country = "U1"] : l \in KycLevels}

InitKyc ==
    /\ user_kyc = [o \in {PAYER, POOL_AUTHORITY} |-> NoUserKyc]
    /\ mints = [m \in {"A", "B"} |->
                  [hook |-> TRANSFER_HOOK_ID, fee |-> NoMintFee,
                   metadata |-> IF m = "A" THEN NoRwaMetadata ELSE RestrictedRwaMetadata,
                   fault |-> NoFault]]
    /\ hook_registry = handle_create_hook_registry(PAYER)
    /\ pool = [collect_fee_mode |-> "BothToken", reserve_a |-> 0, reserve_b |-> 0,
               protocol_fee |-> 0, last_update_timestamp |-> 0]
    /\ balances = [a \in {"user_a", "user_b", "vault_a", "vault_b", "referral_a", "referral_b"} |-> 0]
    /\ last = NoRegOp

\* an initialization varies the tier, or the country and the state
InitializeArgs ==
    {[kyc_level |-> l, country |-> "US", state |-> ""] : l \in KycLevels}
    \cup {[kyc_level |-> BASIC, country |-> c, state |-> t] :
             c \in CountryInputs, t \in StateInputs}

InitializeUserKyc ==
    \E a \in InitializeArgs :
        handle_initialize_user_kyc(PAYER, PAYER, a.kyc_level, a.country, a.state)

UpdateUserKyc ==
    \E authority \in Signers, args \in UpdateArgs :
        handle_update_user_kyc(authority, PAYER, args)

\* the token program invokes the hook for a transfer by the payer
\* (the Execute instruction carries the amount; the handler takes no amount
\* and its user_kyc account is not writable)
TransferHook ==
    \E m \in {"A", "B"}, amount \in HookAmounts :
        /\ last' = [op |-> "transfer_hook", mint |-> m, owner |-> PAYER, amount |-> amount,
                    err |-> handle_transfer_hook(m, PAYER)]
        /\ UNCHANGED <<hook_registry, others>>

NextKyc ==
    \/ InitializeUserKyc
    \/ UpdateUserKyc
    \/ TransferHook

SpecKyc == InitKyc /\ [][NextKyc]_vars

(***************************************************************************)
(* The two movement helpers on their own: mints with and without a gate    *)
(* program, a payer whose record passes the hook or is frozen, and an      *)
(* invocation of the token program that the runtime lets through or ends   *)
(* with one of a few messages.                                             *)
(***************************************************************************)
Faults ==
    {NoFault, {"insufficient compute units"}, {"invalid account"},
     {"insufficient compute units", "invalid account"}, {"account not found"}}
\* an amount that is there, and one beyond everything there is
MoveAmounts == {AmountIn, 2 * VaultStart}

InitMove ==
    /\ \E h \in HookScenarios, f \in Faults :
          mints = [m \in {"A", "B"} |->
                     [hook |-> IF m = "A" THEN h[1] ELSE h[2], fee |-> NoMintFee,
                      metadata |-> NoRwaMetadata, fault |-> f]]
    /\ \E frozen \in BOOLEAN :
          user_kyc = [o \in {PAYER, POOL_AUTHORITY} |->
                        IF o = PAYER /\ frozen
                        THEN [EligibleKyc EXCEPT !.flags = FLAG_FROZEN]
                        ELSE EligibleKyc]
    /\ hook_registry = handle_create_hook_registry(PAYER)
    /\ pool = [collect_fee_mode |-> "BothToken", reserve_a |-> VaultStart,
               reserve_b |-> VaultStart, protocol_fee |-> 0, last_update_timestamp |-> 0]
    /\ balances = [a \in {"user_a", "user_b", "vault_a", "vault_b", "referral_a", "referral_b"} |->
                     IF a \in {"user_a", "user_b"} THEN AmountIn
                     ELSE IF a \in {"vault_a", "vault_b"} THEN VaultStart ELSE 0]
    /\ last = NoRegOp

\* last: the helper, its arguments, what the token program answered (cpi)
\* and what the helper returned
MoveOutcome(op, token_mint, amount, cpi, r) ==
    [op |-> op, mint |-> token_mint, amount |-> amount, cpi |-> [ok |-> cpi.ok, e |-> cpi.e],
     err |-> r.err, e |-> r.e]

TransferFromUser ==
    \E m \in {"A", "B"}, amount \in MoveAmounts :
        LET r == transfer_from_user_with_hooks(balances, PAYER, m, UserAccount(m),
                                               VaultAccount(m), amount, FullAccounts)
            cpi == transfer_checked(balances, m, UserAccount(m), VaultAccount(m), PAYER, amount,
                                    r.account_infos)
        IN /\ balances' = r.balances
           /\ last' = MoveOutcome("transfer_from_user", m, amount, cpi, r)
           /\ UNCHANGED <<hook_registry, mints, pool, user_kyc>>

TransferFromPool ==
    \E m \in {"A", "B"}, amount \in MoveAmounts :
        LET r == transfer_from_pool_with_hooks(balances, POOL_AUTHORITY, m, VaultAccount(m),
                                               UserAccount(m), amount, FullAccounts)
            cpi == transfer_checked(balances, m, VaultAccount(m), UserAccount(m),
                                    POOL_AUTHORITY, amount, r.account_infos)
        IN /\ balances' = r.balances
           /\ last' = MoveOutcome("transfer_from_pool", m, amount, cpi, r)
           /\ UNCHANGED <<hook_registry, mints, pool, user_kyc>>

NextMove ==
    \/ TransferFromUser
    \/ TransferFromPool

SpecMove == InitMove /\ [][NextMove]_vars

(***************************************************************************)
(* Properties of the hook registry                                         *)
(***************************************************************************)
\* the members of a registry: the keys in its first program_count slots, in
\* slot order
MemberSeq(reg) == [k \in 1..reg.program_count |-> reg.whitelisted_programs[k - 1]]
MemberSet(reg) == {reg.whitelisted_programs[i] : i \in {j \in Slots : j < reg.program_count}}
StaleSet(reg) == {reg.whitelisted_programs[i] : i \in {j \in Slots : j >= reg.program_count}}
Without(seq, p) == LET keep(x) == x # p IN SelectSeq(seq, keep)

\* C7: is_program_whitelisted(p) is true exactly when program_count > 0 and p
\* is in one of the first program_count slots; a key found only in a slot at
\* index >= program_count is reported as not whitelisted.
C7_WhitelistedIffAmongFirstCount ==
    /\ \A p \in RegistryIds :
          is_program_whitelisted(hook_registry, p)
              <=> (hook_registry.program_count > 0 /\ p \in MemberSet(hook_registry))
    /\ last.op = "validate" =>
          ((last.err = "Ok") <=> (last.program_id \in MemberSet(hook_registry)))
    /\ last.op = "validate"
          /\ last.program_id \in StaleSet(hook_registry) \ MemberSet(hook_registry)
          => last.err = "UnauthorizedHookProgram"

\* a lookup of a key that is stored in a slot beyond program_count of a
\* non-empty registry, and nowhere among the members, was refused
C7_Witness ==
    /\ last.op = "validate"
    /\ last.err = "UnauthorizedHookProgram"
    /\ hook_registry.program_count > 0
    /\ last.program_id \in StaleSet(hook_registry) \ MemberSet(hook_registry)

\* C8: add_program(p) fails with HookRegistryFull when program_count = 32
\* (before the duplicate check), else with HookProgramAlreadyWhitelisted when
\* p is a member, else writes p at slot program_count, adds one to
\* program_count and leaves every other slot as it was.
C8_AddProgram ==
    [][ (last'.op = "add" /\ last'.err # "ConstraintHasOne") =>
          LET p == last'.program_id
              n == hook_registry.program_count
          IN IF n = 32
             THEN last'.err = "HookRegistryFull" /\ hook_registry' = hook_registry
             ELSE IF p \in MemberSet(hook_registry)
             THEN last'.err = "HookProgramAlreadyWhitelisted"
                  /\ hook_registry' = hook_registry
             ELSE /\ last'.err = "Ok"
                  /\ hook_registry'.program_count = n + 1
                  /\ hook_registry'.whitelisted_programs[n] = p
                  /\ \A i \in Slots \ {n} :
                        hook_registry'.whitelisted_programs[i]
                            = hook_registry.whitelisted_programs[i]
                  /\ hook_registry'.authority = hook_registry.authority
      ]_vars

\* a 33rd add was refused as full although its program is already a member
C8_Witness ==
    /\ last.op = "add"
    /\ last.err = "HookRegistryFull"
    /\ hook_registry.program_count = 32
    /\ last.program_id \in MemberSet(hook_registry)

\* C9: remove_program(p) fails with HookProgramNotFound when p is not a
\* member (also on an empty registry); otherwise the members afterwards are
\* the members before with p deleted, in the same order, program_count is one
\* less and the vacated last slot holds the default key.
C9_RemoveProgram ==
    [][ (last'.op = "remove" /\ last'.err # "ConstraintHasOne") =>
          LET p == last'.program_id
              n == hook_registry.program_count
          IN IF p \notin MemberSet(hook_registry)
             THEN last'.err = "HookProgramNotFound" /\ hook_registry' = hook_registry
             ELSE /\ last'.err = "Ok"
                  /\ MemberSeq(hook_registry') = Without(MemberSeq(hook_registry), p)
                  /\ hook_registry'.program_count = n - 1
                  /\ hook_registry'.whitelisted_programs[n - 1] = DefaultPubkey
                  /\ \A i \in Slots : i >= n =>
                        hook_registry'.whitelisted_programs[i]
                            = hook_registry.whitelisted_programs[i]
                  /\ hook_registry'.authority = hook_registry.authority
      ]_vars

\* a member that was not the last one was removed, so later members moved
C9_Witness ==
    /\ last.op = "remove"
    /\ last.err = "Ok"
    /\ last.index >= 0
    /\ last.index + 2 <= hook_registry.program_count

\* C10: program_count never exceeds 32 and the first program_count slots
\* hold no key twice.
C10_CountAndNoDuplicates ==
    /\ hook_registry.program_count <= 32
    /\ \A i, j \in Slots :
          (i < j /\ j < hook_registry.program_count) =>
              hook_registry.whitelisted_programs[i] # hook_registry.whitelisted_programs[j]

\* the registry has just been filled to its 32nd program by an add
C10_Witness ==
    /\ hook_registry.program_count = 32
    /\ last.op = "add"
    /\ last.err = "Ok"

(***************************************************************************)
(* Properties of swaps, stated on the outcome of the last instruction      *)
(***************************************************************************)
LastSwap == last.op = "swap"
InTrace(rec, step) == \E i \in 1..Len(rec.trace) : rec.trace[i] = step
OutMint(req) == IF req.input_mint = "A" THEN "B" ELSE "A"
\* the gate programs the input and the output asset declare
DeclaredGates == {mints[m].hook : m \in {"A", "B"}} \ {DefaultPubkey}
GateDeclared == DeclaredGates # {}
AllGatesWhitelisted == \A g \in DeclaredGates : g \in MemberSet(hook_registry)
\* the output of pricing less the output asset's transfer fee
OutputAfterFee(req) ==
    LET f == mints[OutMint(req)].fee
        out == req.swap_result.output_amount
        raw == (out * f.transfer_fee_basis_points + 9999) \div 10000
        fee == IF ~f.present THEN 0 ELSE IF raw > f.maximum_fee THEN f.maximum_fee ELSE raw
    IN out - fee
InitialBalances ==
    [a \in {"user_a", "user_b", "vault_a", "vault_b", "referral_a", "referral_b"} |->
        IF a \in {"user_a", "user_b"} THEN AmountIn
        ELSE IF a \in {"vault_a", "vault_b"} THEN VaultStart ELSE 0]

\* C1: when the input or the output asset declares a gate program, a swap
\* attempts a balance movement (input, output or referral leg) only if a
\* registry was supplied to it and every declared gate program is among the
\* registry's members at that time.
C1_NoMovementWithoutWhitelistedGates ==
    (LastSwap /\ GateDeclared /\ last.moves # <<>>)
        => (last.req.has_registry /\ AllGatesWhitelisted)

\* both assets declare a gate program and a swap moved all three legs
C1_Witness ==
    /\ LastSwap
    /\ Cardinality(DeclaredGates) = 2
    /\ last.err = "Ok"
    /\ Len(last.moves) = 3

\* C2: a swap over a gate-bearing asset that gets as far as the registry
\* check fails with MissingHookRegistry when no registry was supplied, and
\* otherwise with UnauthorizedHookProgram when the gate program of the input
\* or of the output asset is not whitelisted; these two errors have no other
\* cause.
C2_RegistryErrors ==
    LastSwap =>
        /\ (GateDeclared /\ InTrace(last, "apply_swap_result")) =>
              /\ ~last.req.has_registry => last.err = "MissingHookRegistry"
              /\ (last.req.has_registry /\ ~AllGatesWhitelisted)
                    => last.err = "UnauthorizedHookProgram"
        /\ last.err = "MissingHookRegistry" => (GateDeclared /\ ~last.req.has_registry)
        /\ last.err = "UnauthorizedHookProgram"
              => (GateDeclared /\ last.req.has_registry /\ ~AllGatesWhitelisted)

\* both assets declare one, the input's is whitelisted, the output's is not
C2_Witness ==
    /\ LastSwap
    /\ last.err = "UnauthorizedHookProgram"
    /\ Cardinality(DeclaredGates) = 2
    /\ mints[last.req.input_mint].hook \in MemberSet(hook_registry)
    /\ mints[OutMint(last.req)].hook \notin MemberSet(hook_registry)

\* C3: a swap in which any step failed leaves the pool (reserves, accrued
\* fee, fee reference timestamp), every balance, the registry and the
\* compliance records as they were before it.
C3_AllOrNothing ==
    [][(/\ last'.op = "swap"
        /\ \/ last'.err # "Ok"
           \/ \E i \in 1..Len(last'.moves) : ~last'.moves[i].ok)
          => UNCHANGED <<pool, balances, hook_registry, user_kyc, mints>>]_vars

\* a swap failed on its output movement, after the reserves were written and
\* the input moved, and nothing of it is left
C3_Witness ==
    /\ LastSwap
    /\ last.err = "HookExecutionFailed"
    /\ InTrace(last, "apply_swap_result")
    /\ Len(last.moves) = 2
    /\ last.moves[1].ok
    /\ ~last.moves[2].ok
    /\ balances = InitialBalances
    /\ pool.last_update_timestamp = 0
    /\ pool.reserve_a = VaultStart

\* C4: a swap that succeeds has an output, less the output asset's transfer
\* fee, of at least minimum_amount_out; a swap that is priced and whose
\* output less the fee is below minimum_amount_out fails with
\* ExceededSlippage and changes neither the pool nor a balance.
C4_Slippage ==
    [][last'.op = "swap" =>
          /\ last'.err = "Ok" => OutputAfterFee(last'.req) >= last'.req.minimum_amount_out
          /\ (/\ InTrace(last', "get_swap_result")
              /\ OutputAfterFee(last'.req) < last'.req.minimum_amount_out)
                => (last'.err = "ExceededSlippage" /\ UNCHANGED <<pool, balances>>)
          /\ last'.err = "ExceededSlippage"
                => OutputAfterFee(last'.req) < last'.req.minimum_amount_out]_vars

\* a swap refused although the output before the fee reaches the minimum
C4_Witness ==
    /\ LastSwap
    /\ last.err = "ExceededSlippage"
    /\ last.req.swap_result.output_amount >= last.req.minimum_amount_out
    /\ pool.last_update_timestamp = 0

\* a swap over a gate-bearing asset that passed the ordinary slippage check
ReachedHardening ==
    /\ LastSwap
    /\ GateDeclared
    /\ InTrace(last, "get_swap_result")
    /\ last.err \notin {"ExceededSlippage", "MathOverflow"}

\* C5: when the input or the output asset declares a gate program, the swap
\* passes the hardening check exactly when its output less the transfer fee
\* is at least minimum_amount_out times 1.005.
C5_MarginIsFiftyBasisPoints ==
    ReachedHardening =>
        (last.err # "InvalidHookSlippageTolerance"
            <=> OutputAfterFee(last.req) * 1000 >= last.req.minimum_amount_out * 1005)

\* C6: a swap that reaches its movements, over an asset gated by the
\* whitelisted transfer-hook program, fails with HookExecutionFailed when
\* the payer's compliance record is frozen, whether the gated asset is the
\* input or the output.
C6_FrozenPayerFailsSwap ==
    (/\ LastSwap
     /\ TRANSFER_HOOK_ID \in DeclaredGates
     /\ last.req.has_registry
     /\ AllGatesWhitelisted
     /\ is_frozen(user_kyc[PAYER])
     /\ InTrace(last, "input"))
        => last.err = "HookExecutionFailed"

(***************************************************************************)
(* Who may change the registry                                             *)
(***************************************************************************)
RegistryChanging == {"add", "remove", "update_authority"}

\* C11: an add, a remove or an authority update signed by a key other than
\* the authority stored in the registry at that moment is refused and leaves
\* the registry unchanged; signed by the stored authority it is not refused
\* for its signer, and an authority update then stores the new authority, so
\* that from the next instruction on the new authority is the one obeyed.
C11_OnlyStoredAuthority ==
    [][last'.op \in RegistryChanging =>
          /\ last'.signer # hook_registry.authority
                => (last'.err = "ConstraintHasOne" /\ hook_registry' = hook_registry)
          /\ last'.signer = hook_registry.authority
                => /\ last'.err # "ConstraintHasOne"
                   /\ last'.op = "update_authority"
                         => (/\ last'.err = "Ok"
                             /\ hook_registry' =
                                   [hook_registry EXCEPT !.authority = last'.program_id])]_vars

\* the authority has just handed the registry to another key
C11_Witness ==
    /\ last.op = "update_authority"
    /\ last.err = "Ok"
    /\ last.signer # last.program_id
    /\ hook_registry.authority = last.program_id

(***************************************************************************)
(* Properties of the fee conversions                                       *)
(***************************************************************************)
Schedule == mints["A"].fee
\* the forward fee of a schedule, written out: the rate applied to the
\* amount, rounded up, and capped
ForwardFee(f, x) ==
    LET raw == (x * f.transfer_fee_basis_points + (MAX_FEE_BASIS_POINTS - 1))
                 \div MAX_FEE_BASIS_POINTS
    IN IF raw > f.maximum_fee THEN f.maximum_fee ELSE raw

\* C12: with a schedule, excluding the fee from x gives (x - fee, fee) with
\* fee the schedule's forward fee, or MathOverflow when the fee exceeds x;
\* without a schedule, or at a rate of 0, it gives (x, 0); including the
\* fee is likewise the identity with fee 0 without a schedule or at rate 0.
C12_ExcludedAmount ==
    /\ last.op = "exclude" =>
          IF Schedule.present
          THEN IF ForwardFee(Schedule, last.x) > last.x
               THEN last.res.err = "MathOverflow"
               ELSE /\ last.res.err = "Ok"
                    /\ last.res.transfer_fee = ForwardFee(Schedule, last.x)
                    /\ last.res.amount = last.x - ForwardFee(Schedule, last.x)
                    /\ Schedule.transfer_fee_basis_points = 0
                          => (last.res.amount = last.x /\ last.res.transfer_fee = 0)
          ELSE last.res = [err |-> "Ok", amount |-> last.x, transfer_fee |-> 0]
    /\ (/\ last.op = "include"
        /\ ~Schedule.present \/ Schedule.transfer_fee_basis_points = 0)
          => (/\ last.res.err = "Ok"
              /\ last.res.amount = last.x
              /\ last.res.transfer_fee = 0)

\* a fee was taken off and was limited by the schedule's maximum
C12_Witness ==
    /\ last.op = "exclude"
    /\ Schedule.present
    /\ last.res.err = "Ok"
    /\ last.res.transfer_fee = Schedule.maximum_fee
    /\ last.res.transfer_fee > 0
    /\ last.res.amount = last.x - last.res.transfer_fee

\* C13 as stated: for a mint with a schedule, including the fee in the
\* fee-excluded amount of x gives x back.
C13_RoundTripIsIdentity ==
    (last.op = "round_trip" /\ Schedule.present)
        => (last.included.err = "Ok" /\ last.included.amount = last.x)

\* C13 amended: for a mint with a schedule, including the fee in the
\* fee-excluded amount y of x succeeds and gives an amount that is at most x
\* and whose fee-excluded amount is y again.
C13_RoundTripReachesSameExcluded ==
    (last.op = "round_trip" /\ Schedule.present)
        => /\ last.included.err = "Ok"
           /\ last.included.amount <= last.x
           /\ last.again.err = "Ok"
           /\ last.again.amount = last.excluded.amount

\* a round trip from a positive fee-excluded amount that ends below x
C13_Witness ==
    /\ last.op = "round_trip"
    /\ Schedule.present
    /\ last.excluded.amount > 0
    /\ last.included.err = "Ok"
    /\ last.included.amount < last.x

\* the fee calculate_transfer_fee_included_amount settles on for y > 0 under
\* a schedule: the maximum fee at a rate of 100%, the inverse fee otherwise
\* (-1: none)
ChosenFee(f, y) ==
    IF f.transfer_fee_basis_points = MAX_FEE_BASIS_POINTS
    THEN f.maximum_fee
    ELSE calculate_inverse_fee(f, y)

\* C14: including the fee in y = 0 gives (0, 0) and the schedule is not
\* read; for y > 0 under a schedule the fee is the maximum fee at a rate of
\* 100% and the inverse fee otherwise, the result is MathOverflow when
\* y + fee does not fit, (y + fee, fee) when the forward fee of y + fee is
\* that fee, and FeeInverseIsIncorrect when it is not.
C14_IncludedAmount ==
    last.op = "include" =>
        /\ last.x = 0
              => last.res = [err |-> "Ok", amount |-> 0, transfer_fee |-> 0,
                             consulted |-> FALSE]
        /\ (last.x > 0 /\ Schedule.present) =>
              LET fee == ChosenFee(Schedule, last.x) IN
              /\ last.res.consulted
              /\ IF fee = -1 \/ last.x + fee > U64_MAX
                 THEN last.res.err = "MathOverflow"
                 ELSE IF ForwardFee(Schedule, last.x + fee) = fee
                 THEN /\ last.res.err = "Ok"
                      /\ last.res.amount = last.x + fee
                      /\ last.res.transfer_fee = fee
                 ELSE last.res.err = "FeeInverseIsIncorrect"

\* at a rate of 100% the maximum fee pushes a large amount out of range
C14_Witness ==
    /\ last.op = "include"
    /\ last.x > 0
    /\ Schedule.present
    /\ Schedule.transfer_fee_basis_points = MAX_FEE_BASIS_POINTS
    /\ last.res.err = "MathOverflow"

(***************************************************************************)
(* Properties of the 64-bit arithmetic                                     *)
(***************************************************************************)
\* the counter an update starts from: zero when the marker differs
DailyBase == IF last.before.last_reset_day # last.current THEN 0 ELSE last.before.daily_volume
MonthlyBase ==
    IF last.before.last_reset_month # last.current THEN 0 ELSE last.before.monthly_volume

\* C15: no 64-bit computation yields a clamped value: the threshold of the
\* enhanced slippage validation is minimum_amount_out * 150 / 100 exactly,
\* and a volume counter after an update is its base plus the amount exactly
\* (the operations report no failure, so a result is always produced).
C15_NeverClamped ==
    /\ last.op = "hook_minimum_amount"
          => last.res = (last.minimum_amount_out * (100 + HOOK_SLIPPAGE_TOLERANCE)) \div 100
    /\ last.op = "update_daily_volume"
          => last.after.daily_volume = DailyBase + last.amount
    /\ last.op = "update_monthly_volume"
          => last.after.monthly_volume = MonthlyBase + last.amount

HasFlag(kyc, bit) == (kyc.flags \div bit) % 2 = 1
\* tier at least basic and none of the sanctioned, frozen, expired flags
Eligible(kyc) ==
    /\ kyc.initialized
    /\ kyc.kyc_level >= 1
    /\ ~HasFlag(kyc, 1)
    /\ ~HasFlag(kyc, 4)
    /\ ~HasFlag(kyc, 8)
HookInvoked == last.op = "transfer_hook"

\* C16: the hook accepts a transfer only if the owner's record has a tier
\* of at least 1 and none of the sanctioned, frozen and expired flags; it
\* returns an error otherwise; a record that meets this is not refused for
\* its compliance status, with or without the politically-exposed flag; the
\* outcome is the same for the same record and mint.
C16_HookAcceptsOnlyEligible ==
    HookInvoked =>
        /\ last.err = "Ok" => Eligible(user_kyc[last.owner])
        /\ ~Eligible(user_kyc[last.owner]) => last.err # "Ok"
        /\ Eligible(user_kyc[last.owner])
              => last.err \in {"Ok", "InvalidCountryCode", "InvalidStateCode"}
        /\ last.err = handle_transfer_hook(last.mint, last.owner)

\* a transfer accepted for an owner flagged politically exposed
C16_Witness ==
    /\ HookInvoked
    /\ last.err = "Ok"
    /\ user_kyc[last.owner].flags = FLAG_PEP

\* C17: when the mint's metadata declares an allowed-countries list, the
\* hook refuses an eligible owner whose country is not in it with
\* InvalidCountryCode; when it declares a restricted-states list, the hook
\* refuses an eligible owner of an allowed country whose country_state code
\* is in it with InvalidStateCode.
C17_GeographicRestrictions ==
    (HookInvoked /\ Eligible(user_kyc[last.owner])) =>
        LET declared == mints[last.mint].metadata
            kyc == user_kyc[last.owner]
        IN /\ (declared.allowed_countries.some
                 /\ kyc.country \notin declared.allowed_countries.list)
                 => last.err = "InvalidCountryCode"
           /\ (/\ declared.restricted_states.some
               /\ <<kyc.country, kyc.state>> \in declared.restricted_states.list
               /\ declared.allowed_countries.some
                     => kyc.country \in declared.allowed_countries.list)
                 => last.err = "InvalidStateCode"

KycInstruction == last.op \in {"initialize_user_kyc", "update_user_kyc"}
SuppliedLevel ==
    IF last.op = "initialize_user_kyc" THEN last.args.kyc_level ELSE last.args.new_kyc_level

\* C19: the tier of every compliance record is in 0..3, and an
\* initialization or update whose accounts are accepted and that supplies a
\* tier above 3 fails with InvalidKycLevel and leaves the record as it was.
C19_KycLevelInRange ==
    /\ \A o \in DOMAIN user_kyc :
          user_kyc[o].initialized => user_kyc[o].kyc_level \in 0..3
    /\ (KycInstruction /\ SuppliedLevel > 3) =>
          /\ last.err # "Ok"
          /\ last.err \notin {"AccountAlreadyInUse", "AccountNotInitialized"}
                => last.err = "InvalidKycLevel"

\* an update to a tier above 3 was refused and the record keeps tier 3
C19_Witness ==
    /\ last.op = "update_user_kyc"
    /\ last.err = "InvalidKycLevel"
    /\ user_kyc[PAYER].initialized
    /\ user_kyc[PAYER].kyc_level = 3

\* C20: the risk score of every compliance record is in 0..100.
C20_RiskScoreInRange ==
    \A o \in DOMAIN user_kyc :
        user_kyc[o].initialized => user_kyc[o].risk_score \in 0..100

(***************************************************************************)
(* Who may change a compliance record, and what a gated transfer leaves in *)
(* it                                                                      *)
(***************************************************************************)
\* C21: an update_user_kyc signed by a party that is not an authority, such
\* as the user of the record itself, does not change the record.
C21_OnlyAuthorityUpdates ==
    [][(last'.op = "update_user_kyc" /\ last'.signer = last'.user)
          => user_kyc'[last'.user] = user_kyc[last'.user]]_vars

\* C22: when the hook accepts a transfer of amount a, the owner's daily and
\* monthly counters afterwards are a (after a rollover) or the counters
\* before plus a.
C22_AcceptedTransferCounted ==
    [][(last'.op = "transfer_hook" /\ last'.err = "Ok") =>
          LET before == user_kyc[last'.owner]
              after == user_kyc'[last'.owner]
              a == last'.amount
          IN /\ after.daily_volume \in {a, before.daily_volume + a}
             /\ after.monthly_volume \in {a, before.monthly_volume + a}]_vars

(***************************************************************************)
(* Properties of the movement helpers                                      *)
(***************************************************************************)
Moved == last.op \in {"transfer_from_user", "transfer_from_pool"}
HookErrors == {"HookExecutionTimeout", "HookAccountResolutionFailed", "HookExecutionFailed"}

\* C23: when the movement of an asset that declares a gate program fails,
\* the helper returns HookExecutionTimeout if the message of the failure
\* contains "insufficient compute units", else HookAccountResolutionFailed
\* if it contains "invalid account", else HookExecutionFailed; when the
\* movement of an asset without a gate program fails, the helper returns
\* the error of the movement itself; a movement that succeeds gives Ok.
C23_FailureClassification ==
    Moved =>
        IF last.cpi.ok THEN last.err = "Ok"
        ELSE IF mints[last.mint].hook # DefaultPubkey
        THEN /\ last.err =
                    IF "insufficient compute units" \in last.cpi.e THEN "HookExecutionTimeout"
                    ELSE IF "invalid account" \in last.cpi.e
                    THEN "HookAccountResolutionFailed"
                    ELSE "HookExecutionFailed"
             /\ last.e = {last.err}
        ELSE /\ last.e = last.cpi.e
             /\ last.err \notin HookErrors \cup {"Ok"}

\* a failure of a gated movement whose message indicates both compute
\* exhaustion and an invalid account was reported as a timeout
C23_Witness ==
    /\ Moved
    /\ mints[last.mint].hook # DefaultPubkey
    /\ last.cpi.e = {"insufficient compute units", "invalid account"}
    /\ last.err = "HookExecutionTimeout"

(***************************************************************************)
(* Properties of the settlement: the event and the movements               *)
(***************************************************************************)
\* the amount given less the input asset's transfer fee
InputAfterFee(req) ==
    LET f == mints[req.input_mint].fee
        raw == (req.amount_in * f.transfer_fee_basis_points + 9999) \div 10000
        fee == IF ~f.present THEN 0 ELSE IF raw > f.maximum_fee THEN f.maximum_fee ELSE raw
    IN req.amount_in - fee
\* the position of a step in the trace of a swap, 0 when it was not taken
StepAt(rec, step) ==
    IF InTrace(rec, step) THEN CHOOSE i \in 1..Len(rec.trace) : rec.trace[i] = step ELSE 0
AllMovesOk(rec) == \A i \in 1..Len(rec.moves) : rec.moves[i].ok

\* C24: a swap that succeeds has emitted exactly one settlement record,
\* after its input, output and (with a referral destination) referral
\* movements all succeeded, and the record's actual_amount_in is amount_in
\* less the input asset's transfer fee (amount_in itself when the input
\* asset has no transfer fee); a swap that fails has emitted none.
C24_SettlementRecord ==
    LastSwap =>
        /\ last.err = "Ok" =>
              /\ Len(last.events) = 1
              /\ last.events[1].actual_amount_in = InputAfterFee(last.req)
              /\ ~mints[last.req.input_mint].fee.present
                    => last.events[1].actual_amount_in = last.req.amount_in
              /\ Len(last.moves) = IF last.req.has_referral THEN 3 ELSE 2
              /\ AllMovesOk(last)
              /\ last.trace[Len(last.trace)] = "emit"
              /\ \A i \in 1..(Len(last.trace) - 1) : last.trace[i] # "emit"
        /\ (last.err # "Ok" \/ ~AllMovesOk(last)) => last.events = <<>>

\* a swap with a referral whose input asset carries a transfer fee emitted
\* a record of less than the amount given
C24_Witness ==
    /\ LastSwap
    /\ last.err = "Ok"
    /\ last.req.has_referral
    /\ Len(last.events) = 1
    /\ last.events[1].actual_amount_in < last.req.amount_in
    /\ last.events[1].actual_amount_in > 0

\* C25: a swap that succeeds has moved, in this order, amount_in from the
\* payer's account of the input asset to the vault of the input asset, the
\* priced output from the vault of the output asset to the payer's account of
\* the output asset and, exactly when a referral destination was supplied,
\* the referral fee from a vault to the referral destination; without one
\* there are exactly two movements.
C25_MovementOrder ==
    (LastSwap /\ last.err = "Ok") =>
        LET req == last.req
            in == req.input_mint
            out == IF in = "A" THEN "B" ELSE "A"
        IN /\ Len(last.moves) = IF req.has_referral THEN 3 ELSE 2
           /\ last.moves[1] =
                 [leg |-> "input", mint |-> in, amount |-> req.amount_in,
                  source |-> IF in = "A" THEN "user_a" ELSE "user_b",
                  destination |-> IF in = "A" THEN "vault_a" ELSE "vault_b", ok |-> TRUE]
           /\ last.moves[2] =
                 [leg |-> "output", mint |-> out, amount |-> req.swap_result.output_amount,
                  source |-> IF out = "A" THEN "vault_a" ELSE "vault_b",
                  destination |-> IF out = "A" THEN "user_a" ELSE "user_b", ok |-> TRUE]
           /\ req.has_referral =>
                 /\ last.moves[3].leg = "referral"
                 /\ last.moves[3].amount = req.swap_result.referral_fee
                 /\ last.moves[3].source = IF last.moves[3].mint = "A" THEN "vault_a" ELSE "vault_b"
                 /\ last.moves[3].destination =
                       IF last.moves[3].mint = "A" THEN "referral_a" ELSE "referral_b"
                 /\ last.moves[3].ok
           /\ last.trace[Len(last.trace)] = "emit"
           /\ \A i \in 1..Len(last.moves) : StepAt(last, last.moves[i].leg) > 0
           /\ \A i, j \in 1..Len(last.moves) :
                 i < j => StepAt(last, last.moves[i].leg) < StepAt(last, last.moves[j].leg)

\* three movements of a swap from B to A, the referral fee paid in A
C25_Witness ==
    /\ LastSwap
    /\ last.err = "Ok"
    /\ last.req.input_mint = "B"
    /\ Len(last.moves) = 3
    /\ last.moves[3].leg = "referral"
    /\ last.moves[3].mint = "A"
    /\ balances["referral_a"] > 0

(***************************************************************************)
(* Properties of the checks of a swap and of their order                   *)
(***************************************************************************)
\* C26: the hardening check is evaluated only when the input or the output
\* asset declares a gate program and only after the ordinary slippage check
\* has passed; when it is evaluated, the swap fails with
\* InvalidHookSlippageTolerance exactly when its output less the transfer
\* fee is below floor(minimum_amount_out * (100 + 50) / 100); a swap over
\* assets without a gate program is never subject to it.
C26_HardeningCheck ==
    LastSwap =>
        /\ InTrace(last, "hook_slippage_check") =>
              /\ GateDeclared
              /\ StepAt(last, "slippage_check") > 0
              /\ StepAt(last, "slippage_check") < StepAt(last, "hook_slippage_check")
              /\ last.err # "ExceededSlippage"
              /\ last.err = "InvalidHookSlippageTolerance"
                    <=> OutputAfterFee(last.req)
                            < (last.req.minimum_amount_out * (100 + 50)) \div 100
        /\ last.err = "InvalidHookSlippageTolerance" => InTrace(last, "hook_slippage_check")
        /\ ~GateDeclared =>
              (~InTrace(last, "hook_slippage_check")
                  /\ last.err # "InvalidHookSlippageTolerance")

\* C27: a swap that fails with AmountIsZero, ExceededSlippage or
\* InvalidHookSlippageTolerance returns before the invocation has written
\* to the pool account, the refresh of the dynamic-fee reference included.
C27_ValidationBeforeMutation ==
    (LastSwap /\ last.err \in {"AmountIsZero", "ExceededSlippage",
                                "InvalidHookSlippageTolerance"})
        => (~last.mutated /\ ~InTrace(last, "update_pre_swap"))

\* C28: a swap that fails with PoolDisabled, MissingHookRegistry or
\* UnauthorizedHookProgram returns before the invocation has written to the
\* pool account, in particular before the swap result is applied.
C28_AuthorizationBeforeMutation ==
    (LastSwap /\ last.err \in {"PoolDisabled", "MissingHookRegistry",
                                "UnauthorizedHookProgram"})
        => (~last.mutated /\ ~InTrace(last, "apply_swap_result"))

\* C29: a swap on an enabled pool whose amount_in less the input asset's
\* transfer fee is zero fails with AmountIsZero, before the refresh of the
\* dynamic-fee reference, before pricing and before any movement; no other
\* swap fails with AmountIsZero.
C29_ZeroInputRejectedFirst ==
    LastSwap =>
        /\ (last.req.can_swap /\ InputAfterFee(last.req) = 0) =>
              /\ last.err = "AmountIsZero"
              /\ last.trace = <<>>
              /\ last.moves = <<>>
              /\ ~last.mutated
        /\ last.err = "AmountIsZero" => InputAfterFee(last.req) = 0

\* an amount of one whose transfer fee is the whole of it
C29_Witness ==
    /\ LastSwap
    /\ last.err = "AmountIsZero"
    /\ last.req.amount_in > 0
    /\ mints[last.req.input_mint].fee.present
    /\ last.trace = <<>>

\* the steps of a swap in the order of the design
StepRank(step) ==
    CASE step = "update_pre_swap" -> 1
      [] step = "get_swap_result" -> 2
      [] step = "slippage_check" -> 3
      [] step = "hook_slippage_check" -> 4
      [] step = "apply_swap_result" -> 5
      [] step = "registry_check" -> 6
      [] step = "input" -> 7
      [] step = "output" -> 8
      [] step = "referral" -> 9
      [] step = "emit" -> 10

\* C30: the steps a swap takes are, in this order, the refresh of the
\* dynamic-fee reference, pricing, the slippage checks, the application of
\* the swap result to the pool, and the movements, none of them taken
\* without the ones before it (the hardening check only with a gate
\* program); no movement is attempted before the swap result was applied.
C30_StepOrder ==
    LastSwap =>
        /\ \A i, j \in 1..Len(last.trace) :
              i < j => StepRank(last.trace[i]) < StepRank(last.trace[j])
        /\ InTrace(last, "get_swap_result") => InTrace(last, "update_pre_swap")
        /\ InTrace(last, "slippage_check") => InTrace(last, "get_swap_result")
        /\ InTrace(last, "apply_swap_result") =>
              /\ InTrace(last, "slippage_check")
              /\ GateDeclared => InTrace(last, "hook_slippage_check")
        /\ last.moves # <<>> =>
              /\ InTrace(last, "apply_swap_result")
              /\ StepAt(last, "apply_swap_result") < StepAt(last, "input")
              /\ last.moves[1].leg = "input"
              /\ last.mutated
        /\ \A i \in 1..Len(last.moves) : InTrace(last, last.moves[i].leg)

\* a swap over gated assets that took every step, the referral included
C30_Witness ==
    /\ LastSwap
    /\ last.err = "Ok"
    /\ GateDeclared
    /\ last.trace = <<"update_pre_swap", "get_swap_result", "slippage_check",
                      "hook_slippage_check", "apply_swap_result", "registry_check",
                      "input", "output", "referral", "emit">>

(***************************************************************************)
(* C36: in every state reachable from handle_create_hook_registry by add   *)
(* and remove instructions, every slot at an index at or above             *)
(* program_count holds the default identifier.                             *)
(***************************************************************************)
C36_UnusedSlotsAreDefault ==
    \A i \in Slots :
        i >= hook_registry.program_count
            => hook_registry.whitelisted_programs[i] = DefaultPubkey

\* a program other than the last one was removed from a registry that still
\* holds programs
C36_Witness ==
    /\ last.op = "remove"
    /\ last.err = "Ok"
    /\ last.index >= 0
    /\ last.index < hook_registry.program_count
    /\ hook_registry.program_count < MAX_PROGRAMS

(***************************************************************************)
(* C37: a registry operation that fails changes nothing. add_program and   *)
(* remove_program hand back the slots, the count and the authority they    *)
(* were given whenever they return HookRegistryFull,                       *)
(* HookProgramAlreadyWhitelisted or HookProgramNotFound, and the           *)
(* instruction that failed so leaves the account identical.                *)
(***************************************************************************)
FailedRegistryOperation(o) ==
    /\ o.op \in {"add", "remove"}
    /\ o.err \in {"HookRegistryFull", "HookProgramAlreadyWhitelisted", "HookProgramNotFound"}

C37_FailedOperationChangesNothing ==
    [][/\ \A p \in RegistryIds :
            /\ add_program(hook_registry, p).err # "Ok"
                   => add_program(hook_registry, p).reg = hook_registry
            /\ remove_program(hook_registry, p).err # "Ok"
                   => remove_program(hook_registry, p).reg = hook_registry
       /\ FailedRegistryOperation(last') => hook_registry' = hook_registry]_vars

\* an add refused by a full registry
C37_Witness ==
    /\ last.op = "add"
    /\ last.err = "HookRegistryFull"
    /\ hook_registry.program_count = MAX_PROGRAMS

(***************************************************************************)
(* C39: whenever calculate_transfer_fee_included_amount(asset, y) succeeds *)
(* with (a, f), calculate_transfer_fee_excluded_amount(asset, a) returns   *)
(* the amount y and the fee f.                                             *)
(***************************************************************************)
C39_IncludedThenExcluded ==
    last.op = "include_exclude"
        => /\ last.excluded.err = "Ok"
           /\ last.excluded.amount = last.x
           /\ last.excluded.transfer_fee = last.included.transfer_fee

\* a fee below the cap was added to a positive amount and taken off again
C39_Witness ==
    /\ last.op = "include_exclude"
    /\ last.x > 0
    /\ last.included.transfer_fee > 0
    /\ last.included.transfer_fee < get_epoch_transfer_fee("A").maximum_fee
    /\ last.included.amount = last.x + last.included.transfer_fee
    /\ last.excluded.amount = last.x

(***************************************************************************)
(* C31: when a referral destination is supplied, the referral fee moves    *)
(* out of vault A in asset A if the fee mode's fees_on_token_a is set and  *)
(* out of vault B in asset B otherwise, whatever the direction; the        *)
(* auxiliary accounts passed to that movement are those passed to the leg  *)
(* (input or output) of that asset when the asset declares a gate          *)
(* program, and none when it does not.                                     *)
(***************************************************************************)
ReferralIndex(rec) == CHOOSE i \in 1..Len(rec.moves) : rec.moves[i].leg = "referral"
HasReferralMove(rec) == \E i \in 1..Len(rec.moves) : rec.moves[i].leg = "referral"
\* the auxiliary accounts passed to the input or output movement of a mint
LegAccounts(rec, token_mint) ==
    LET j == CHOOSE j \in 1..Len(rec.moves) :
                 rec.moves[j].leg \in {"input", "output"} /\ rec.moves[j].mint = token_mint
    IN rec.passed[j].remaining_accounts

C31_ReferralMovement ==
    (LastSwap /\ HasReferralMove(last))
        => LET i == ReferralIndex(last)
               fee_mode == get_fee_mode(pool.collect_fee_mode,
                                        get_trade_direction(last.req.input_mint),
                                        last.req.has_referral)
               asset == IF fee_mode.fees_on_token_a THEN "A" ELSE "B"
           IN /\ last.req.has_referral
              /\ last.moves[i].mint = asset
              /\ last.moves[i].source = VaultAccount(asset)
              /\ last.moves[i].amount = last.req.swap_result.referral_fee
              /\ last.passed[i].remaining_accounts =
                     IF mints[asset].hook # DefaultPubkey
                     THEN LegAccounts(last, asset)
                     ELSE <<>>

\* the referral fee left vault A, whose mint declares a gate program, with
\* the accounts the caller supplied
C31_Witness ==
    /\ LastSwap
    /\ last.err = "Ok"
    /\ HasReferralMove(last)
    /\ last.moves[ReferralIndex(last)].mint = "A"
    /\ last.moves[ReferralIndex(last)].ok
    /\ mints["A"].hook # DefaultPubkey
    /\ last.passed[ReferralIndex(last)].remaining_accounts = last.req.remaining_accounts
    /\ last.req.remaining_accounts # <<>>

(***************************************************************************)
(* C32: a swap in which neither asset declares a gate program performs no  *)
(* registry check: its outcome is the same with and without a registry     *)
(* account, whatever the registry holds; it does not meet the hardening    *)
(* check; and its input and output movements are passed no auxiliary       *)
(* accounts, even when the caller supplied some.                           *)
(***************************************************************************)
NoGates ==
    /\ mints["A"].hook = DefaultPubkey
    /\ mints["B"].hook = DefaultPubkey

C32_UngatedSwap ==
    NoGates
        => /\ \A req \in SwapRequests :
                  handle_swap(req) = handle_swap([req EXCEPT !.has_registry = ~req.has_registry])
           /\ LastSwap
                  => /\ last.err \notin {"MissingHookRegistry", "UnauthorizedHookProgram",
                                          "InvalidHookSlippageTolerance"}
                     /\ ~InTrace(last, "registry_check")
                     /\ ~InTrace(last, "hook_slippage_check")
                     /\ \A i \in 1..Len(last.passed) :
                            last.passed[i].leg \in {"input", "output"}
                                => last.passed[i].remaining_accounts = <<>>

\* an ungated swap without a registry account, by a caller who supplied
\* extra accounts, went through while the registry held no program
C32_Witness ==
    /\ NoGates
    /\ LastSwap
    /\ last.err = "Ok"
    /\ ~last.req.has_registry
    /\ last.req.remaining_accounts # <<>>
    /\ hook_registry.program_count = 0
    /\ Len(last.passed) >= 2

(***************************************************************************)
(* C33: within one swap the input, the output and the referral movement    *)
(* are each attempted at most once; when a movement fails, also with       *)
(* HookExecutionTimeout, the swap returns that error, the failed movement  *)
(* is the last step taken, and no settlement record is emitted.            *)
(***************************************************************************)
C33_MovementsAtMostOnce ==
    LastSwap
        => /\ \A i, j \in 1..Len(last.moves) :
                  last.moves[i].leg = last.moves[j].leg => i = j
           /\ Len(last.passed) = Len(last.moves)
           /\ \A i \in 1..Len(last.moves) :
                  ~last.moves[i].ok
                      => /\ i = Len(last.moves)
                         /\ last.passed[i].err # "Ok"
                         /\ last.err = last.passed[i].err
                         /\ last.trace[Len(last.trace)] = last.moves[i].leg
                         /\ last.events = <<>>

\* the output movement ran out of compute units after the input movement
\* had gone through, in a swap with a referral account
C33_Witness ==
    /\ LastSwap
    /\ last.req.has_referral
    /\ Len(last.moves) = 2
    /\ last.moves[1].ok
    /\ last.moves[2].leg = "output"
    /\ ~last.moves[2].ok
    /\ last.err = "HookExecutionTimeout"

(***************************************************************************)
(* C34: the direction is AtoB when the input token account holds the       *)
(* pool's asset A and BtoA when it holds asset B; a swap whose input token *)
(* account holds neither is given no direction: it takes no step and       *)
(* attempts no movement.                                                   *)
(***************************************************************************)
C34_DirectionResolution ==
    LastSwap
        => /\ (last.req.input_mint = "A" /\ last.moves # <<>>)
                  => (last.moves[1].mint = "A" /\ last.moves[1].destination = "vault_a")
           /\ (last.req.input_mint = "B" /\ last.moves # <<>>)
                  => (last.moves[1].mint = "B" /\ last.moves[1].destination = "vault_b")
           /\ last.req.input_mint \notin {"A", "B"}
                  => (last.trace = <<>> /\ last.moves = <<>>)

(***************************************************************************)
(* C35: the account list of a gated movement is source, mint, destination, *)
(* authority; then the extra-account-metas record of this mint under its   *)
(* gate program if it is among the accounts supplied; then the gate        *)
(* program if it is among them; then every other account supplied whose    *)
(* key is not yet in the list, in the order supplied. Every account        *)
(* appended is read-only and no signer, and no key is appended twice.      *)
(***************************************************************************)
FirstAt(seq, k) == CHOOSE i \in 1..Len(seq) : seq[i] = k /\ \A j \in 1..(i - 1) : seq[j] # k
LegAuthority(leg) == IF leg = "input" THEN PAYER ELSE POOL_AUTHORITY

C35_GatedAccountList ==
    LastSwap
        => \A i \in 1..Len(last.passed) :
               mints[last.moves[i].mint].hook # DefaultPubkey
                   => LET mv == last.moves[i]
                          list == last.passed[i].account_infos
                          extra == last.passed[i].remaining_accounts
                          given == {extra[k] : k \in 1..Len(extra)}
                          meta == MetaKey(mv.mint, mints[mv.mint].hook)
                          program == ProgramKey(mints[mv.mint].hook)
                          rest == 5 + (IF meta \in given THEN 1 ELSE 0)
                                    + (IF program \in given THEN 1 ELSE 0)
                      IN /\ Len(list) >= rest - 1
                         /\ list[1].key = TokenKey(mv.source)
                         /\ list[2].key = MintKey(mv.mint)
                         /\ list[3].key = TokenKey(mv.destination)
                         /\ list[4].key = WalletKey(LegAuthority(mv.leg))
                         /\ meta \in given => list[5].key = meta
                         /\ program \in given => list[rest - 1].key = program
                         /\ \A k \in rest..Len(list) :
                                /\ list[k].key \in given
                                /\ \A l \in rest..Len(list) :
                                       k < l => FirstAt(extra, list[k].key)
                                                    < FirstAt(extra, list[l].key)
                         /\ \A k \in 5..Len(list) :
                                /\ ~list[k].is_signer
                                /\ ~list[k].is_writable
                                /\ \A l \in 1..Len(list) : list[l].key = list[k].key => l = k
                         /\ \A k \in 1..Len(extra) : \E l \in 1..Len(list) : list[l].key = extra[k]

\* a gated input movement went through with accounts supplied out of
\* order, some twice and some already part of the transfer
C35_Witness ==
    /\ LastSwap
    /\ last.moves # <<>>
    /\ last.moves[1].ok
    /\ mints[last.moves[1].mint].hook = TRANSFER_HOOK_ID
    /\ last.passed[1].account_infos[5].key = MetaKey(last.moves[1].mint, TRANSFER_HOOK_ID)
    /\ last.passed[1].remaining_accounts[1] = KycKey(PAYER)
    /\ \E k \in 1..Len(last.passed[1].remaining_accounts) :
           last.passed[1].remaining_accounts[k] = TokenKey(last.moves[1].source)
    /\ Len(last.passed[1].account_infos) < 4 + Len(last.passed[1].remaining_accounts)

(***************************************************************************)
(* C38: across registry instructions and swaps: a successful remove of     *)
(* gate program p leaves p not whitelisted, and p stays so until a         *)
(* successful add of p; while a gate program a mint declares is not        *)
(* whitelisted every swap fails, attempts no movement and leaves balances  *)
(* and pool as they were, and the error is UnauthorizedHookProgram         *)
(* whenever the swap comes to consult a registry account; adding or        *)
(* removing a program no mint declares changes the outcome of no swap.     *)
(***************************************************************************)
GateMissing == \E p \in DeclaredGates : ~is_program_whitelisted(hook_registry, p)

\* a successful remove takes the program off the whitelist, and only a
\* successful add of the same program puts it back
RemovalLasts ==
    /\ (last'.op = "remove" /\ last'.err = "Ok")
           => ~is_program_whitelisted(hook_registry', last'.program_id)
    /\ \A p \in {TRANSFER_HOOK_ID, OtherHookId} :
           (~is_program_whitelisted(hook_registry, p) /\ is_program_whitelisted(hook_registry', p))
               => (last'.op = "add" /\ last'.err = "Ok" /\ last'.program_id = p)

\* a swap over a gate program that is not whitelisted moves nothing
BlockedSwapMovesNothing ==
    (last'.op = "swap" /\ GateMissing)
        => /\ last'.err # "Ok"
           /\ last'.moves = <<>>
           /\ last'.events = <<>>
           /\ UNCHANGED <<balances, pool>>

\* the registry instructions on programs no mint declares leave all a swap
\* reads as it was: the verdict of the registry validation on the mints'
\* gate programs, the pool, the balances, the mints and the KYC records
OtherProgramsDoNotMatter ==
    (last'.op \in {"add", "remove"} /\ last'.program_id \notin DeclaredGates)
        => /\ \A has_registry \in BOOLEAN, m \in {"A", "B"} :
                  registry_check(has_registry, mints[m].hook, mints[OutMint([input_mint |-> m])].hook)'
                      = registry_check(has_registry, mints[m].hook,
                                       mints[OutMint([input_mint |-> m])].hook)
           /\ UNCHANGED <<pool, balances, mints, user_kyc>>

C38_RemovedGateBlocksSwaps ==
    [][/\ RemovalLasts
       /\ BlockedSwapMovesNothing
       /\ (last'.op = "swap" /\ GateMissing /\ last'.req.has_registry
             /\ InTrace(last', "registry_check"))
              => last'.err = "UnauthorizedHookProgram"
       /\ OtherProgramsDoNotMatter]_vars

\* C38 as stated: every swap over a gate program that is not whitelisted
\* fails with UnauthorizedHookProgram
C38_RemovedGateAlwaysUnauthorized ==
    [][/\ RemovalLasts
       /\ BlockedSwapMovesNothing
       /\ (last'.op = "swap" /\ GateMissing) => last'.err = "UnauthorizedHookProgram"
       /\ OtherProgramsDoNotMatter]_vars

\* a swap over two gated mints was refused while only one of their gate
\* programs was on the whitelist
C38_Witness ==
    /\ LastSwap
    /\ last.err = "UnauthorizedHookProgram"
    /\ last.moves = <<>>
    /\ Cardinality(DeclaredGates) = 2
    /\ hook_registry.program_count = 1
    /\ is_program_whitelisted(hook_registry, OtherHookId)

====
